---- MODULE Spec2Model ----
(***************************************************************************)
(* State-machine model of the logging pipeline of @xivdyetools/logger:     *)
(* BaseLogger (level filter, entry builder, context merge, field           *)
(* redaction, global context) and the DelegatingLogger returned by         *)
(* child().  The model follows the current revision of core/base-logger.ts *)
(* (the one with DelegatingLogger, src/unnamed/part_004), which is the     *)
(* revision the test-suite in the same file exercises.                     *)
(***************************************************************************)
EXTENDS Integers, Sequences, FiniteSets, TLC

(***************************************************************************)
(* Bounds of the model.                                                    *)
(***************************************************************************)
MaxCalls == 3       \* setContext, child() and time() calls in one behaviour of Spec
MaxKids == 2        \* child() calls in one behaviour of SpecLevel
MaxRedactions == 2  \* successive redactions of one context in SpecRedact
MaxTimeCalls == 2   \* setContext, child() and time() calls in one behaviour of SpecTime
MaxPerfCalls == 2   \* perf.start, measure and measureSync calls in one behaviour of SpecPerf
MaxClock == 1       \* the last reading of performance.now() in SpecPerf, in ms

(***************************************************************************)
(* JavaScript values that occur as context values.  Every value is a       *)
(* record of the same shape so that any two values can be compared:        *)
(*   Str(s)    the string s                                                *)
(*   Obj(k, s) the nested object {k: s}                                    *)
(***************************************************************************)
Str(s) == [t |-> "str", k |-> "", s |-> s]
Obj(k, s) == [t |-> "obj", k |-> k, s |-> s]

\* Number.prototype.toString of an integer.
DecimalDigits == <<"0", "1", "2", "3", "4", "5", "6", "7", "8", "9">>
RECURSIVE NumberToString(_)
NumberToString(n) ==
  IF n < 0 THEN "-" \o NumberToString(0 - n)
  ELSE IF n < 10 THEN DecimalDigits[n + 1]
  ELSE NumberToString(n \div 10) \o DecimalDigits[(n % 10) + 1]

\* A number of milliseconds, held in ticks.
Num(us) == [t |-> "num", k |-> "", s |-> NumberToString(us)]

\* Clock readings and durations are held in ticks of 1/1024 ms: every such
\* number is a double exactly, and so is the difference of two of them.
TicksPerMs == 1024

\* 2^e modulo den.
RECURSIVE Pow2Mod(_, _)
Pow2Mod(e, den) == IF e = 0 THEN 1 % den ELSE (2 * Pow2Mod(e - 1, den)) % den

\* The e with 2^52 <= (num / den) * 2^e < 2^53, for num > 0, counted from
\* e: the scale of the 53-bit significand of the double nearest to num / den.
RECURSIVE SignificandScale(_, _, _)
SignificandScale(num, den, e) ==
  IF num >= 2 * den THEN SignificandScale(num, 2 * den, e - 1)
  ELSE IF num < den THEN SignificandScale(2 * num, den, e + 1)
  ELSE e

\* The double that holds num / den (num > 0) is the nearest one: its
\* significand is num * 2^e / den rounded to an integer.  TRUE when that
\* double is the quotient itself or lies above it.
DoubleNotBelow(num, den) ==
  LET r == ((num % den) * Pow2Mod(SignificandScale(num, den, 52), den)) % den
  IN r = 0 \/ 2 * r > den

\* Number.prototype.toFixed(2) of the double that holds num / den (den > 0;
\* a clock reading in ticks, a whole number of milliseconds, or the quotient
\* totalTime / count): the sign, then the n for which n / 100 is nearest to
\* the double's exact value, the larger n on an exact tie.  When the
\* quotient lies midway between two hundredths the side on which the double
\* lies decides (0.125 is a double and goes up, 0.075 is held as a double
\* below it and goes down); everywhere else the double rounds as the
\* quotient does.
toFixed2(num, den) ==
  LET a == IF num < 0 THEN 0 - num ELSE num
      midway == (200 * a) % den = 0 /\ ((200 * a) \div den) % 2 = 1
      hundredths == IF midway
                    THEN ((100 * a) \div den) + (IF DoubleNotBelow(a, den) THEN 1 ELSE 0)
                    ELSE (200 * a + den) \div (2 * den)
  IN (IF num < 0 THEN "-" ELSE "")
       \o NumberToString(hundredths \div 100) \o "."
       \o DecimalDigits[((hundredths \div 10) % 10) + 1]
       \o DecimalDigits[(hundredths % 10) + 1]

\* A LogContext is a function from its own enumerable keys to values.
EmptyObject == <<>>

\* context?: LogContext -- an optional argument: undefined or an object.
Undefined == [has |-> FALSE, ctx |-> EmptyObject]
Provided(c) == [has |-> TRUE, ctx |-> c]

\* { ...a, ...b }: own keys of a, overlaid by own keys of b.
Spread(a, b) ==
  [x \in (DOMAIN a) \cup (DOMAIN b) |-> IF x \in DOMAIN b THEN b[x] ELSE a[x]]

\* obj[k] = v on a copy.
Assign(obj, k, v) == [x \in (DOMAIN obj) \cup {k} |-> IF x = k THEN v ELSE obj[x]]

\* Property names every object literal inherits from Object.prototype.
ObjectPrototypeKeys ==
  {"constructor", "toString", "valueOf", "hasOwnProperty", "isPrototypeOf",
   "propertyIsEnumerable", "toLocaleString", "__defineGetter__", "__defineSetter__",
   "__lookupGetter__", "__lookupSetter__", "__proto__"}

\* obj[k] = v, on a copy: an own or new data property, except that an
\* inherited __proto__ is the prototype's accessor: its setter ignores a
\* string and makes an object the prototype (which no later spread copies),
\* and creates no key either way.
SetProperty(obj, k, v) ==
  IF k = "__proto__" /\ k \notin DOMAIN obj THEN obj ELSE Assign(obj, k, v)

\* Object.assign(target, source) on a copy of target: target[k] = source[k]
\* for every own key k of source.
ObjectAssign(target, source) ==
  LET assigned == {k \in DOMAIN source : k \in DOMAIN SetProperty(target, k, source[k])}
  IN [x \in (DOMAIN target) \cup assigned |->
        IF x \in assigned THEN source[x] ELSE target[x]]

\* JavaScript `k in obj`: own property or inherited through the prototype.
In(k, obj) == k \in DOMAIN obj \/ k \in ObjectPrototypeKeys

\* Array.prototype.indexOf, zero-based, -1 when absent.
indexOf(seq, x) ==
  IF \E i \in 1..Len(seq) : seq[i] = x
  THEN (CHOOSE i \in 1..Len(seq) : seq[i] = x /\ \A j \in 1..(i - 1) : seq[j] # x) - 1
  ELSE 0 - 1

(***************************************************************************)
(* Constants of base-logger.ts.                                            *)
(***************************************************************************)
LOG_LEVELS == <<"debug", "info", "warn", "error">>

DEFAULT_REDACT_FIELDS ==
  <<"password", "token", "secret", "authorization", "cookie", "api_key",
    "apiKey", "access_token", "refresh_token">>

REDACTED == Str("[REDACTED]")

\* BaseLogger constructor: defaults overlaid by the partial config.
DefaultConfig ==
  [level |-> "info", format |-> "json", timestamps |-> TRUE,
   sanitizeErrors |-> TRUE, redactFields |-> DEFAULT_REDACT_FIELDS]

BaseLoggerConfig(partial) == Spread(DefaultConfig, partial)

\* this.config.prefix, "" when the optional field is absent (both falsy).
Prefix(cfg) == IF "prefix" \in DOMAIN cfg THEN cfg.prefix ELSE ""

(***************************************************************************)
(* Level filter.                                                           *)
(***************************************************************************)
\* Variant: a level passes only when strictly above the configured one.
shouldLogAbove(cfg, level) == indexOf(LOG_LEVELS, level) > indexOf(LOG_LEVELS, cfg.level)

shouldLog(cfg, level) == indexOf(LOG_LEVELS, level) >= indexOf(LOG_LEVELS, cfg.level)

(***************************************************************************)
(* Field redaction: the for-loop over fieldsToRedact on a copy.            *)
(***************************************************************************)
\* Variant: the marker keeps the redacted value's text.
RECURSIVE redactLoopKeepingText(_, _)
redactLoopKeepingText(fields, redacted) ==
  IF fields = <<>> THEN redacted
  ELSE redactLoopKeepingText(
         Tail(fields),
         IF In(Head(fields), redacted)
         THEN SetProperty(redacted, Head(fields),
                     Str("[REDACTED:" \o
                         (IF Head(fields) \in DOMAIN redacted
                          THEN redacted[Head(fields)].s ELSE "") \o "]"))
         ELSE redacted)

RECURSIVE redactLoop(_, _)
redactLoop(fields, redacted) ==
  IF fields = <<>> THEN redacted
  ELSE redactLoop(Tail(fields),
                  IF In(Head(fields), redacted)
                  THEN SetProperty(redacted, Head(fields), REDACTED)
                  ELSE redacted)

\* this.config.redactFields || DEFAULT_REDACT_FIELDS: an array, even an empty
\* one, is truthy; the default applies when the field is absent.
fieldsToRedact(cfg) ==
  IF "redactFields" \in DOMAIN cfg THEN cfg.redactFields ELSE DEFAULT_REDACT_FIELDS

redactSensitiveFields(cfg, context) == redactLoop(fieldsToRedact(cfg), context)

(***************************************************************************)
(* Context merge and entry builder.                                        *)
(***************************************************************************)
\* Variant: the merge is returned without redaction.
mergeContextUnredacted(cfg, globalCtx, context) ==
  IF ~context.has /\ DOMAIN globalCtx = {}
  THEN Undefined
  ELSE Provided(Spread(globalCtx, context.ctx))

mergeContext(cfg, globalCtx, context) ==
  IF ~context.has /\ DOMAIN globalCtx = {}
  THEN Undefined
  ELSE Provided(redactSensitiveFields(cfg, Spread(globalCtx, context.ctx)))

(***************************************************************************)
(* Message sanitization: eight String.prototype.replace calls with global, *)
(* case-insensitive regular expressions.  A message is a sequence of       *)
(* characters.                                                             *)
(***************************************************************************)
UpperCaseLetters ==
  <<"A", "B", "C", "D", "E", "F", "G", "H", "I", "J", "K", "L", "M",
    "N", "O", "P", "Q", "R", "S", "T", "U", "V", "W", "X", "Y", "Z">>
LowerCaseLetters ==
  <<"a", "b", "c", "d", "e", "f", "g", "h", "i", "j", "k", "l", "m",
    "n", "o", "p", "q", "r", "s", "t", "u", "v", "w", "x", "y", "z">>

\* The i flag: characters are compared ignoring case.
toLowerCase(c) ==
  IF \E n \in DOMAIN UpperCaseLetters : UpperCaseLetters[n] = c
  THEN LowerCaseLetters[CHOOSE n \in DOMAIN UpperCaseLetters : UpperCaseLetters[n] = c]
  ELSE c

\* \s, ["'] and [^\s,;].
\* The characters of \s that a string of this module cannot hold, named by
\* code point: \v, the no-break space, the Unicode space separators, the line
\* and paragraph separators and the byte order mark.
UnicodeSpaces ==
  {"U+000B", "U+00A0", "U+1680", "U+2000", "U+2001", "U+2002", "U+2003", "U+2004",
   "U+2005", "U+2006", "U+2007", "U+2008", "U+2009", "U+200A", "U+2028", "U+2029",
   "U+202F", "U+205F", "U+3000", "U+FEFF"}

\* \s of a JavaScript regular expression.
IsSpace(c) == c \in {" ", "\t", "\n", "\r", "\f"} \cup UnicodeSpaces
IsQuote(c) == c \in {"\"", "'"}
IsValueChar(c) == ~IsSpace(c) /\ c \notin {",", ";"}

\* The literal lit (in lower case) matches m at position i, ignoring case.
MatchesLiteral(m, i, lit) ==
  /\ i + Len(lit) - 1 <= Len(m)
  /\ \A j \in 1..Len(lit) : toLowerCase(m[i + j - 1]) = lit[j]

\* Lengths of the greedy runs \s*, \S+ and [^\s,;]+ of m from position i.
SpaceRun(m, i) ==
  CHOOSE n \in 0..(Len(m) - i + 1) :
    /\ \A j \in i..(i + n - 1) : IsSpace(m[j])
    /\ (i + n > Len(m) \/ ~IsSpace(m[i + n]))
NonSpaceRun(m, i) ==
  CHOOSE n \in 0..(Len(m) - i + 1) :
    /\ \A j \in i..(i + n - 1) : ~IsSpace(m[j])
    /\ (i + n > Len(m) \/ IsSpace(m[i + n]))
ValueRun(m, i) ==
  CHOOSE n \in 0..(Len(m) - i + 1) :
    /\ \A j \in i..(i + n - 1) : IsValueChar(m[j])
    /\ (i + n > Len(m) \/ ~IsValueChar(m[i + n]))

BearerLiteral == <<"b", "e", "a", "r", "e", "r">>
BearerReplacement == 
  <<"B", "e", "a", "r", "e", "r", " ", "[", "R", "E", "D", "A", "C", "T", "E",
    "D", "]">>

\* /Bearer\s+\S+/gi at position i: the length of the match, 0 when none.
BearerMatch(m, i) ==
  IF ~MatchesLiteral(m, i, BearerLiteral) THEN 0
  ELSE LET spaces == SpaceRun(m, i + Len(BearerLiteral))
           token == NonSpaceRun(m, i + Len(BearerLiteral) + spaces)
       IN IF spaces = 0 \/ token = 0 THEN 0
          ELSE Len(BearerLiteral) + spaces + token

\* (?!Bearer\s) at position v.
FollowedByBearer(m, v) ==
  /\ MatchesLiteral(m, v, BearerLiteral)
  /\ v + Len(BearerLiteral) <= Len(m)
  /\ IsSpace(m[v + Len(BearerLiteral)])

\* The key=value rules, in the order of the replace calls: the spellings the
\* key pattern admits (api[_-]?key ...), whether (?!Bearer\s) guards the
\* value, and the replacement string.
KeyValueRules ==
  <<[bearer |-> FALSE,
     keys |-> {<<"t", "o", "k", "e", "n">>},
     notBearer |-> FALSE,
     replacement |->
       <<"t", "o", "k", "e", "n", "=", "[", "R", "E", "D", "A", "C", "T", "E", "D",
         "]">>],
    [bearer |-> FALSE,
     keys |-> {<<"s", "e", "c", "r", "e", "t">>},
     notBearer |-> FALSE,
     replacement |->
       <<"s", "e", "c", "r", "e", "t", "=", "[", "R", "E", "D", "A", "C", "T", "E",
         "D", "]">>],
    [bearer |-> FALSE,
     keys |-> {<<"p", "a", "s", "s", "w", "o", "r", "d">>},
     notBearer |-> FALSE,
     replacement |->
       <<"p", "a", "s", "s", "w", "o", "r", "d", "=", "[", "R", "E", "D", "A", "C",
         "T", "E", "D", "]">>],
    [bearer |-> FALSE,
     keys |-> {<<"a", "p", "i", "_", "k", "e", "y">>,
              <<"a", "p", "i", "-", "k", "e", "y">>,
              <<"a", "p", "i", "k", "e", "y">>},
     notBearer |-> FALSE,
     replacement |->
       <<"a", "p", "i", "_", "k", "e", "y", "=", "[", "R", "E", "D", "A", "C", "T",
         "E", "D", "]">>],
    [bearer |-> FALSE,
     keys |-> {<<"a", "u", "t", "h", "o", "r", "i", "z", "a", "t", "i", "o", "n">>},
     notBearer |-> TRUE,
     replacement |->
       <<"a", "u", "t", "h", "o", "r", "i", "z", "a", "t", "i", "o", "n", "=", "[",
         "R", "E", "D", "A", "C", "T", "E", "D", "]">>],
    [bearer |-> FALSE,
     keys |-> {<<"a", "c", "c", "e", "s", "s", "_", "t", "o", "k", "e", "n">>,
              <<"a", "c", "c", "e", "s", "s", "-", "t", "o", "k", "e", "n">>,
              <<"a", "c", "c", "e", "s", "s", "t", "o", "k", "e", "n">>},
     notBearer |-> FALSE,
     replacement |->
       <<"a", "c", "c", "e", "s", "s", "_", "t", "o", "k", "e", "n", "=", "[", "R",
         "E", "D", "A", "C", "T", "E", "D", "]">>],
    [bearer |-> FALSE,
     keys |-> {<<"r", "e", "f", "r", "e", "s", "h", "_", "t", "o", "k", "e", "n">>,
              <<"r", "e", "f", "r", "e", "s", "h", "-", "t", "o", "k", "e", "n">>,
              <<"r", "e", "f", "r", "e", "s", "h", "t", "o", "k", "e", "n">>},
     notBearer |-> FALSE,
     replacement |->
       <<"r", "e", "f", "r", "e", "s", "h", "_", "t", "o", "k", "e", "n", "=", "[",
         "R", "E", "D", "A", "C", "T", "E", "D", "]">>]>>

\* Variant: the authorization rule without (?!Bearer\s).
KeyValueMatchWithoutLookahead(m, i, rule) ==
  IF ~\E key \in rule.keys : MatchesLiteral(m, i, key) THEN 0
  ELSE LET key == CHOOSE k \in rule.keys : MatchesLiteral(m, i, k)
           d == i + Len(key)
       IN IF d > Len(m) \/ m[d] \notin {"=", ":"} THEN 0
          ELSE LET v == d + 1 + SpaceRun(m, d + 1)
                   closing == {q \in (v + 1)..Len(m) : IsQuote(m[q])}
               IN IF v <= Len(m) /\ IsQuote(m[v]) /\ closing # {}
                  THEN (CHOOSE q \in closing : \A r \in closing : q <= r) - i + 1
                  ELSE LET n == ValueRun(m, v)
                       IN IF n > 0 THEN v + n - i ELSE 0

\* /key[=:]\s*(?:["']([^"']*?)["']|[^\s,;]+)/gi at position i: the length of
\* the match, 0 when none.  The quoted alternative ends at the first quote
\* character of either kind after the opening one; without one the unquoted
\* alternative is tried at the same position.
KeyValueMatch(m, i, rule) ==
  IF ~\E key \in rule.keys : MatchesLiteral(m, i, key) THEN 0
  ELSE LET key == CHOOSE k \in rule.keys : MatchesLiteral(m, i, k)
           d == i + Len(key)
       IN IF d > Len(m) \/ m[d] \notin {"=", ":"} THEN 0
          ELSE LET v == d + 1 + SpaceRun(m, d + 1)
                   closing == {q \in (v + 1)..Len(m) : IsQuote(m[q])}
               IN IF rule.notBearer /\ FollowedByBearer(m, v) THEN 0
                  ELSE IF v <= Len(m) /\ IsQuote(m[v]) /\ closing # {}
                  THEN (CHOOSE q \in closing : \A r \in closing : q <= r) - i + 1
                  ELSE LET n == ValueRun(m, v)
                       IN IF n > 0 THEN v + n - i ELSE 0

RuleMatch(m, i, rule) ==
  IF rule.bearer THEN BearerMatch(m, i) ELSE KeyValueMatch(m, i, rule)

\* message.replace(regex, replacement) with the g flag, from position i on.
RECURSIVE replace(_, _, _)
replace(m, i, rule) ==
  IF i > Len(m) THEN <<>>
  ELSE LET n == RuleMatch(m, i, rule)
       IN IF n > 0 THEN rule.replacement \o replace(m, i + n, rule)
          ELSE <<m[i]>> \o replace(m, i + 1, rule)

BearerRule ==
  [bearer |-> TRUE, keys |-> {BearerLiteral}, notBearer |-> FALSE,
   replacement |-> BearerReplacement]

\* Variant: the rules of release 1.0.0: Bearer, token, secret, password, api_key.
SanitizeRulesOfFirstRelease == <<BearerRule>> \o SubSeq(KeyValueRules, 1, 4)

SanitizeRules == <<BearerRule>> \o KeyValueRules

RECURSIVE replaceAll(_, _)
replaceAll(message, rules) ==
  IF rules = <<>> THEN message
  ELSE replaceAll(replace(message, 1, Head(rules)), Tail(rules))

sanitizeErrorMessage(message) == replaceAll(message, SanitizeRules)

\* error.code: absent, a string or a number.
NoCode == [t |-> "undefined", s |-> ""]
StringCode(s) == [t |-> "string", s |-> s]
NumberCode(s) == [t |-> "number", s |-> s]

\* The error argument of error(): undefined, null, a string (a sequence of
\* characters), a plain object or an Error instance.
ErrorValue(t, s) ==
  [t |-> t, s |-> s, name |-> "", message |-> <<>>, code |-> NoCode, stack |-> ""]
NoErrorArg == ErrorValue("undefined", <<>>)
NullErrorArg == ErrorValue("null", <<>>)
StringErrorArg(s) == ErrorValue("string", s)
ObjectErrorArg == ErrorValue("object", <<>>)
\* Object.create(null): an object with no toString and no valueOf.
BareObjectErrorArg == ErrorValue("bare", <<>>)
ErrorObject(name, message, code) ==
  [t |-> "Error", s |-> <<>>, name |-> name, message |-> message, code |-> code,
   stack |-> name \o ": stack"]

\* JavaScript truthiness of the error argument.
Truthy(error) ==
  /\ error.t \notin {"undefined", "null"}
  /\ ~(error.t = "string" /\ error.s = <<>>)

\* String(value) of a non-Error value.
StringOf(error) ==
  CASE error.t = "undefined" -> <<"u", "n", "d", "e", "f", "i", "n", "e", "d">>
    [] error.t = "null" -> <<"n", "u", "l", "l">>
    [] error.t = "object" ->
         <<"[", "o", "b", "j", "e", "c", "t", " ", "O", "b", "j", "e", "c", "t", "]">>
    [] OTHER -> error.s

\* String(value) raises a TypeError for an object that cannot be converted to
\* a primitive.
StringThrows(error) == error.t = "bare"

\* formatError raises what String(error) raises, on its non-Error branch.
formatErrorThrows(cfg, error) == error.t # "Error" /\ StringThrows(error)

\* createEntry calls formatError for a truthy error value.
createEntryThrows(cfg, error) == Truthy(error) /\ formatErrorThrows(cfg, error)

NoError ==
  [name |-> "", message |-> <<>>, hasCode |-> FALSE, code |-> "",
   hasStack |-> FALSE, stack |-> ""]

formatError(cfg, error) ==
  IF error.t = "Error"
  THEN [name |-> error.name,
        message |-> IF cfg.sanitizeErrors THEN sanitizeErrorMessage(error.message)
                    ELSE error.message,
        hasCode |-> error.code.t = "string",
        code |-> IF error.code.t = "string" THEN error.code.s ELSE "",
        hasStack |-> ~cfg.sanitizeErrors,
        stack |-> IF ~cfg.sanitizeErrors THEN error.stack ELSE ""]
  ELSE [name |-> "Unknown", message |-> StringOf(error), hasCode |-> FALSE,
        code |-> "", hasStack |-> FALSE, stack |-> ""]

createEntry(cfg, globalCtx, level, message, context, error) ==
  LET mergedContext == mergeContext(cfg, globalCtx, context)
      withContext == mergedContext.has /\ Cardinality(DOMAIN mergedContext.ctx) > 0
  IN [level |-> level,
      message |-> IF Prefix(cfg) # "" THEN "[" \o Prefix(cfg) \o "] " \o message
                  ELSE message,
      hasContext |-> withContext,
      context |-> IF withContext THEN mergedContext.ctx ELSE EmptyObject,
      hasError |-> Truthy(error),
      error |-> IF Truthy(error) THEN formatError(cfg, error) ELSE NoError]

(***************************************************************************)
(* Inputs of the calls.                                                    *)
(***************************************************************************)
Levels == {"debug", "info", "warn", "error"}
Messages == {"x"}
Keys == {"a", "token"}

\* The values a call supplies name the call they come from (the n-th
\* setContext or child() call of the behaviour, or the log call): the code
\* never inspects a context value, so its origin is all that matters.
Digits == <<"1", "2", "3", "4", "5", "6", "7", "8", "9">>
CallSiteValue == Str("x")
SetValue(n) == Str("s" \o Digits[n])
ChildValue(n) == Str("c" \o Digits[n])

\* The contexts a call passes: {} and the one-key objects {k: v}, k in K.
ContextsOf(K, v) == {EmptyObject} \cup {[x \in {k} |-> v] : k \in K}
OptContextsOf(K) == {Undefined} \cup {Provided(c) : c \in ContextsOf(K, CallSiteValue)}
TokenOrNothing == {Undefined, Provided([token |-> CallSiteValue])}
ErrorArgs == {NoErrorArg, StringErrorArg(<<"b", "o", "o", "m">>)}

CustomRedactFields == {<<"a">>, <<"constructor">>}

\* Readings of performance.now() and of Date.now() (whole milliseconds), in
\* ticks, and timer labels.
Times == {1024, 3539}
DateNows == {2048}

\* typeof performance !== 'undefined' ? performance.now() : Date.now()
clockRead(hasPerformance, performanceNow, dateNow) ==
  IF hasPerformance THEN performanceNow ELSE dateNow

\* What the clock expression can read: neither clock is required to have
\* advanced since an earlier reading (Date.now() follows the wall clock).
ClockReadings ==
  {clockRead(p, t, d) : p \in BOOLEAN, t \in Times, d \in DateNows}
Labels == {"op"}

\* Configurations a logger is constructed with: default or custom redactFields.
PartialConfigs(levels, prefix) ==
  {[level |-> l, prefix |-> prefix] : l \in levels}
    \cup {[level |-> l, prefix |-> prefix, redactFields |-> rf] :
            l \in levels, rf \in CustomRedactFields}

(***************************************************************************)
(* State.                                                                  *)
(***************************************************************************)
VARIABLES
  config,         \* config[i]: LoggerConfig of BaseLogger instance i
  globalContext,  \* globalContext[i]: its global context
  written,        \* written[i]: the entries the last call passed to its write()
  objs,           \* heap of context objects held by reference
  callerObjs,     \* the objects of the heap the caller holds a reference to
  kids,           \* DelegatingLogger instances: [parent, childContext]
  timers,         \* closures returned by time(): [logger, label, start, async, pc, ...]
  call,           \* the last call made and its arguments
  pre,            \* globalContext and objs before the last call
  setArgs,        \* setArgs[i]: arguments of the setContext calls made on i
  origin,         \* origin[j]: where kid j comes from: the BaseLogger its child()
                  \* chain began at, the number of setContext calls made on that
                  \* logger before kid j was created, the length of the chain,
                  \* the caller's object and the handle child() was called on
  ncalls,         \* number of setContext, child() and time() calls made so far
  rinput,         \* SpecRedact: the context given to the first redaction
  rctx,           \* SpecRedact: the result of the last redaction
  rprev,          \* SpecRedact: the argument of the last redaction
  rcount,         \* SpecRedact: number of redactions applied
  parts,          \* SpecSanitize: the pieces the error message is made of
  activeTimers,   \* perf: label -> start time of its active timer
  metricsStore,   \* perf: label -> MetricsData
  metricsKeys,    \* perf: the labels of metricsStore, in the Map's insertion order
  now,            \* perf: the reading of performance.now()
  console,        \* perf: what the last perf call printed on the console
  measures,       \* perf: the measure / measureSync calls made: [label, sync, pc, ...]
  pcall,          \* perf: the last perf call and what it returned
  ppre,           \* perf: the two maps before the last perf call
  ended,          \* perf: label -> durations of the ends that found a timer, since
                  \* the last clear
  nperf,          \* perf: number of start, measure and logMetrics calls made so far
  tracked         \* browser preset: whether createBrowserLogger wrapped error and
                  \* warn, and what the last call did: writes and tracker calls

loggerVars == <<config, globalContext, written, objs, callerObjs, kids, timers, call, pre,
                setArgs, origin, ncalls>>
redactVars == <<rinput, rctx, rprev, rcount>>
sanitizeVars == <<parts>>
perfVars == <<activeTimers, metricsStore, metricsKeys, now, console, measures, pcall, ppre, ended, nperf>>
browserVars == <<tracked>>
otherVars == <<redactVars, sanitizeVars, perfVars, browserVars>>
vars == <<loggerVars, otherVars>>

Cores == DOMAIN config
Kids == DOMAIN kids

\* A logger handle the application holds: a BaseLogger or a DelegatingLogger.
CoreHandle(i) == [kind |-> "core", id |-> i]
KidHandle(j) == [kind |-> "kid", id |-> j]
Handles == {CoreHandle(i) : i \in Cores} \cup {KidHandle(j) : j \in Kids}

NoCall == [op |-> "none", h |-> CoreHandle(1), level |-> "", message |-> "",
           context |-> Undefined, error |-> NoErrorArg, label |-> "", ret |-> 0,
           t |-> 0, now |-> 0, threw |-> FALSE]

Snapshot == [globalContext |-> globalContext, objs |-> objs]

\* The state after constructing the BaseLogger instances of `configs`.
Constructed(configs) ==
  /\ config = configs
  /\ globalContext = [i \in DOMAIN configs |-> EmptyObject]
  /\ written = [i \in DOMAIN configs |-> <<>>]
  /\ objs = <<>>
  /\ callerObjs = {}
  /\ kids = <<>>
  /\ timers = <<>>
  /\ call = NoCall
  /\ pre = [globalContext |-> [i \in DOMAIN configs |-> EmptyObject], objs |-> <<>>]
  /\ setArgs = [i \in DOMAIN configs |-> <<>>]
  /\ origin = <<>>
  /\ ncalls = 0

\* An error message made of a prefix, a key, a delimiter, a value between
\* quote characters (or none) and a suffix.
NoParts ==
  [prefix |-> <<>>, family |-> "", key |-> <<>>, delim |-> <<>>, quote |-> <<>>,
   value |-> <<>>, suffix |-> <<>>]
NoSanitization == parts = NoParts

NoRedaction ==
  rinput = EmptyObject /\ rctx = EmptyObject /\ rprev = EmptyObject /\ rcount = 0

\* A logger that createBrowserLogger did not make.
NoTracker == tracked = [isDevMode |-> FALSE, errorTracker |-> FALSE, wrapped |-> FALSE,
                        events |-> <<>>]

\* The perf registry at module load: two empty maps.
Registry ==
  [activeTimers |-> activeTimers, metricsStore |-> metricsStore,
   metricsKeys |-> metricsKeys]
NoPerfCall == [op |-> "none", label |-> "", at |-> 0, ok |-> FALSE, ret |-> 0, m |-> 0,
               outcome |-> [kind |-> "pending", value |-> ""],
               result |-> [kind |-> "pending", value |-> ""]]
NoPerf ==
  /\ activeTimers = EmptyObject
  /\ metricsStore = EmptyObject
  /\ metricsKeys = <<>>
  /\ now = 0
  /\ console = <<>>
  /\ measures = <<>>
  /\ pcall = NoPerfCall
  /\ ppre = [activeTimers |-> EmptyObject, metricsStore |-> EmptyObject,
             metricsKeys |-> <<>>]
  /\ ended = EmptyObject
  /\ nperf = 0

(***************************************************************************)
(* BaseLogger.debug/info/warn/error: filter, build, write.                 *)
(***************************************************************************)
\* The call raises when createEntry does: after the level filter, before the
\* write.
BaseLogThrows(i, level, error) ==
  shouldLog(config[i], level) /\ createEntryThrows(config[i], error)

BaseLog(i, level, message, context, error) ==
  written' = IF shouldLog(config[i], level) /\ ~BaseLogThrows(i, level, error)
             THEN [j \in Cores |->
                     IF j = i
                     THEN <<createEntry(config[i], globalContext[i], level, message,
                                        context, error)>>
                     ELSE <<>>]
             ELSE [j \in Cores |-> <<>>]

\* Variant: the child layer over the call-site context.
DelegatingMergeContextChildWins(childContext, context) ==
  IF context.has THEN Provided(Spread(context.ctx, childContext))
  ELSE Provided(childContext)

\* DelegatingLogger.mergeContext: the child layer under the call-site context.
DelegatingMergeContext(childContext, context) ==
  IF context.has THEN Provided(Spread(childContext, context.ctx))
  ELSE Provided(childContext)

\* DelegatingLogger.debug/info/warn/error: forward to the parent.
DelegatingLog(j, level, message, context, error) ==
  BaseLog(kids[j].parent, level, message,
          DelegatingMergeContext(objs[kids[j].childContext], context), error)

\* logger.<level>(message, context) / logger.error(message, error, context).
Log(h, level, message, context, error) ==
  /\ (level # "error") => (error = NoErrorArg)
  /\ IF h.kind = "core"
     THEN BaseLog(h.id, level, message, context, error)
     ELSE DelegatingLog(h.id, level, message, context, error)
  /\ call' = [NoCall EXCEPT !.op = "log", !.h = h, !.level = level,
                            !.message = message, !.context = context, !.error = error,
                            !.threw = BaseLogThrows(IF h.kind = "core" THEN h.id
                                                    ELSE kids[h.id].parent,
                                                    level, error)]
  /\ pre' = Snapshot
  /\ UNCHANGED <<config, globalContext, objs, callerObjs, kids, timers, setArgs, origin,
                 ncalls>>
  /\ UNCHANGED otherVars

(***************************************************************************)
(* setContext.                                                             *)
(***************************************************************************)
\* Variant: the argument replaces the global context.
BaseSetContextReplacing(i, context) ==
  /\ globalContext' = [globalContext EXCEPT ![i] = context]
  /\ objs' = objs

\* Variant: a child's setContext merges into its parent's global context.
DelegatingSetContextIntoParent(j, context) ==
  /\ globalContext' = [globalContext EXCEPT ![kids[j].parent] = Spread(@, context)]
  /\ objs' = objs

\* Variant: keys the global context already has keep their values.
BaseSetContextFirstWins(i, context) ==
  /\ globalContext' = [globalContext EXCEPT ![i] = Spread(context, @)]
  /\ objs' = objs

\* BaseLogger.setContext: a new object replaces the global context.
BaseSetContext(i, context) ==
  /\ globalContext' = [globalContext EXCEPT ![i] = Spread(@, context)]
  /\ objs' = objs

\* DelegatingLogger.setContext: Object.assign into the child's own object.
DelegatingSetContext(j, context) ==
  /\ objs' = [objs EXCEPT ![kids[j].childContext] = ObjectAssign(@, context)]
  /\ globalContext' = globalContext

SetContext(h, context) ==
  /\ IF h.kind = "core"
     THEN BaseSetContext(h.id, context)
     ELSE DelegatingSetContext(h.id, context)
  /\ setArgs' = IF h.kind = "core" THEN [setArgs EXCEPT ![h.id] = Append(@, context)]
                ELSE setArgs
  /\ call' = [NoCall EXCEPT !.op = "setContext", !.h = h,
                            !.context = Provided(context)]
  /\ pre' = Snapshot
  /\ ncalls' = ncalls + 1
  /\ written' = [i \in Cores |-> <<>>]
  /\ UNCHANGED <<config, callerObjs, kids, timers, origin>>
  /\ UNCHANGED otherVars

(***************************************************************************)
(* child.                                                                  *)
(***************************************************************************)
\* Variant: child() constructs a new logger from the parent's configuration
\* and a copy of its global context merged with `context`.
BaseChildCloning(i, ref, context) ==
  /\ config' = Append(config, config[i])
  /\ globalContext' = Append(globalContext, Spread(globalContext[i], context))
  /\ kids' = Append(kids, [parent |-> Len(config) + 1, childContext |-> Len(objs) + 1])
  /\ objs' = Append(objs, EmptyObject)
  /\ callerObjs' = callerObjs

\* Variant: child() keeps a copy of the caller's object.
BaseChildCopying(i, ref, context) ==
  /\ objs' = IF ref = Len(objs) + 1 THEN objs \o <<context, context>>
             ELSE Append(objs, objs[ref])
  /\ kids' = Append(kids, [parent |-> i, childContext |-> Len(objs')])
  /\ callerObjs' = callerObjs \cup {ref}
  /\ UNCHANGED <<config, globalContext>>

\* BaseLogger.child(context): a DelegatingLogger holding `context` itself.
\* ref is the caller's object: a fresh literal (Len(objs) + 1) or an object
\* the caller already passed to an earlier child() call.
BaseChild(i, ref, context) ==
  /\ kids' = Append(kids, [parent |-> i, childContext |-> ref])
  /\ objs' = IF ref = Len(objs) + 1 THEN Append(objs, context) ELSE objs
  /\ callerObjs' = callerObjs \cup {ref}
  /\ UNCHANGED <<config, globalContext>>

\* Variant: the grandchild writes `context` into the child's own object and
\* keeps that object.
DelegatingChildSharing(j, context) ==
  /\ kids' = Append(kids, [parent |-> kids[j].parent, childContext |-> kids[j].childContext])
  /\ objs' = [objs EXCEPT ![kids[j].childContext] = Spread(@, context)]
  /\ callerObjs' = callerObjs
  /\ UNCHANGED <<config, globalContext>>

\* DelegatingLogger.child(context): same parent, a copy of the merged layers.
DelegatingChild(j, context) ==
  /\ kids' = Append(kids, [parent |-> kids[j].parent, childContext |-> Len(objs) + 1])
  /\ objs' = Append(objs, Spread(objs[kids[j].childContext], context))
  /\ callerObjs' = callerObjs
  /\ UNCHANGED <<config, globalContext>>

Child(h, ref, context) ==
  /\ IF h.kind = "core"
     THEN BaseChild(h.id, ref, context)
     ELSE DelegatingChild(h.id, context)
  /\ origin' = Append(origin,
                      IF h.kind = "core"
                      THEN [root |-> h.id, sets |-> Len(setArgs[h.id]), depth |-> 1,
                            obj |-> ref, from |-> h]
                      ELSE [root |-> origin[h.id].root,
                            sets |-> Len(setArgs[origin[h.id].root]),
                            depth |-> origin[h.id].depth + 1, obj |-> 0, from |-> h])
  /\ call' = [NoCall EXCEPT !.op = "child", !.h = h, !.context = Provided(context)]
  /\ pre' = Snapshot
  /\ ncalls' = ncalls + 1
  /\ written' = [i \in DOMAIN config' |-> <<>>]
  /\ setArgs' = [i \in DOMAIN config' |-> IF i \in DOMAIN setArgs THEN setArgs[i] ELSE <<>>]
  /\ timers' = timers
  /\ UNCHANGED otherVars

(***************************************************************************)
(* time and timeAsync.                                                     *)
(***************************************************************************)
\* The outcome of the fn given to timeAsync, and of timeAsync's own promise.
NoOutcome == [kind |-> "pending", value |-> ""]
Resolved(v) == [kind |-> "resolved", value |-> v]
Rejected(e) == [kind |-> "rejected", value |-> e]
Outcomes == {Resolved("result"), Rejected("failure")}

\* BaseLogger.time(label): read the clock, return the closure.  timeAsync
\* takes the same closure, calls fn and awaits it.
\*   pc = "closure" : the closure is in the application's hands (time)
\*   pc = "await"   : timeAsync is suspended at `await fn()`
\*   pc = "finally" : fn has settled, the finally block is about to run
\*   pc = "return"  : the finally block has run, timeAsync's promise settles
\*   pc = "done"    : the outcome has reached the caller
BaseTime(i, label, start, async) ==
  [logger |-> i, label |-> label, start |-> start, async |-> async,
   pc |-> IF async THEN "await" ELSE "closure",
   outcome |-> NoOutcome, result |-> NoOutcome, ends |-> 0,
   this |-> CoreHandle(i), via |-> CoreHandle(i)]

\* A child whose time() builds the closure over the child itself.
DelegatingTimeOnChild(j, label, start, async) ==
  [BaseTime(kids[j].parent, label, start, async) EXCEPT !.this = KidHandle(j)]

\* DelegatingLogger.time / timeAsync: the parent's.
DelegatingTime(j, label, start, async) == BaseTime(kids[j].parent, label, start, async)

\* logger.time(label) / logger.timeAsync(label, fn) on the handle h; `via`
\* remembers the handle.
Time(h, label, start, async) ==
  /\ LET closure == IF h.kind = "core"
                    THEN BaseTime(h.id, label, start, async)
                    ELSE DelegatingTime(h.id, label, start, async)
     IN timers' = Append(timers, [closure EXCEPT !.via = h])
  /\ call' = [NoCall EXCEPT !.op = IF async THEN "timeAsync" ELSE "time", !.h = h,
                            !.label = label]
  /\ pre' = Snapshot
  /\ ncalls' = ncalls + 1
  /\ written' = [i \in Cores |-> <<>>]
  /\ UNCHANGED <<config, globalContext, objs, callerObjs, kids, setArgs, origin>>
  /\ UNCHANGED otherVars

\* A closure that forgets to return the duration.
closureReturnsNothing(duration) == 0

\* `return duration` of the closure.
closureReturn(duration) == duration

\* The body of the closure of timer t, run at clock reading `end`.
Closure(t, end, op) ==
  /\ LET duration == end - timers[t].start
         label == timers[t].label
         message == label \o ": " \o toFixed2(duration, TicksPerMs) \o "ms"
         context == Provided([x \in {"duration", "label"} |->
                                IF x = "duration" THEN Num(duration) ELSE Str(label)])
     IN /\ IF timers[t].this.kind = "core"
           THEN BaseLog(timers[t].this.id, "debug", message, context, NoErrorArg)
           ELSE DelegatingLog(timers[t].this.id, "debug", message, context, NoErrorArg)
        /\ call' = [NoCall EXCEPT !.op = op, !.h = CoreHandle(timers[t].logger),
                                  !.label = label, !.ret = closureReturn(duration),
                                  !.t = t, !.now = end]
  /\ pre' = Snapshot
  /\ UNCHANGED <<config, globalContext, objs, callerObjs, kids, setArgs, origin, ncalls>>
  /\ UNCHANGED otherVars

\* The application calls the closure that time() returned.
End(t, end) ==
  /\ timers[t].pc = "closure"
  /\ Closure(t, end, "end")
  /\ timers' = timers

\* A timeAsync that calls end() only after a resolved fn (no finally).
timeAsyncEndsOnSuccess(outcome) == IF outcome.kind = "resolved" THEN "finally" ELSE "return"

\* try { return await fn() } finally { end() }: whatever fn's outcome, the
\* finally block is next.
timeAsyncAfterAwait(outcome) == "finally"

\* The promise of fn settles (a fn that throws at once is a rejection).
Settle(t, outcome) ==
  /\ timers[t].pc = "await"
  /\ timers' = [timers EXCEPT ![t].outcome = outcome,
                              ![t].pc = timeAsyncAfterAwait(outcome)]
  /\ call' = [NoCall EXCEPT !.op = "settle", !.h = CoreHandle(timers[t].logger),
                            !.label = timers[t].label, !.t = t]
  /\ pre' = Snapshot
  /\ written' = [i \in Cores |-> <<>>]
  /\ UNCHANGED <<config, globalContext, objs, callerObjs, kids, setArgs, origin, ncalls>>
  /\ UNCHANGED otherVars

\* finally { end() } of timeAsync.
Finally(t, end) ==
  /\ timers[t].pc = "finally"
  /\ Closure(t, end, "finally")
  /\ timers' = [timers EXCEPT ![t].pc = "return", ![t].ends = timers[t].ends + 1]

\* The completion of the try statement: the value returned or the exception
\* rethrown is the one of `await fn()`.
timeAsyncResult(outcome) == outcome

\* The promise of timeAsync settles: the outcome reaches the caller.
Deliver(t) ==
  /\ timers[t].pc = "return"
  /\ timers' = [timers EXCEPT ![t].result = timeAsyncResult(timers[t].outcome),
                              ![t].pc = "done"]
  /\ call' = [NoCall EXCEPT !.op = "deliver", !.h = CoreHandle(timers[t].logger),
                            !.label = timers[t].label, !.t = t]
  /\ pre' = Snapshot
  /\ written' = [i \in Cores |-> <<>>]
  /\ UNCHANGED <<config, globalContext, objs, callerObjs, kids, setArgs, origin, ncalls>>
  /\ UNCHANGED otherVars

LogStep(levels, messages, contexts) ==
  \E h \in Handles, l \in levels, m \in messages, c \in contexts, e \in ErrorArgs :
    Log(h, l, m, c, e)

SetContextStep(K, max) ==
  /\ ncalls < max
  /\ \E h \in Handles, c \in ContextsOf(K, SetValue(ncalls + 1)) : SetContext(h, c)

\* child() with a fresh object literal.
ChildStep(K, max) ==
  /\ ncalls < max
  /\ \E h \in Handles, c \in ContextsOf(K, ChildValue(ncalls + 1)) :
       Child(h, Len(objs) + 1, c)

\* child(ctx) on a BaseLogger, ctx being an object literal or an object the
\* caller has passed to child() before.
ChildOfObjectStep(K, max) ==
  /\ ncalls < max
  /\ \E i \in Cores :
       \/ \E c \in ContextsOf(K, ChildValue(ncalls + 1)) :
            Child(CoreHandle(i), Len(objs) + 1, c)
       \/ \E ref \in callerObjs : Child(CoreHandle(i), ref, objs[ref])

TimeStep(starts, max) ==
  /\ ncalls < max
  /\ \E h \in Handles, l \in Labels, s \in starts, async \in BOOLEAN : Time(h, l, s, async)

EndStep == \E t \in DOMAIN timers, e \in ClockReadings : End(t, e)

SettleStep(outcomes) == \E t \in DOMAIN timers, o \in outcomes : Settle(t, o)

FinallyStep == \E t \in DOMAIN timers, e \in ClockReadings : Finally(t, e)

DeliverStep == \E t \in DOMAIN timers : Deliver(t)

(***************************************************************************)
(* Spec: one logger, its children and their contexts.                      *)
(*                                                                         *)
(* A log call leaves the state of every logger unchanged (only `call` and  *)
(* `written` record it), so each state of the loggers that is reachable    *)
(* with log calls in between is reachable without them: here a log call is *)
(* the observation that ends a behaviour, and so is the call of a timer's  *)
(* closure, which is a debug call.                                         *)
(***************************************************************************)
Observed == call.op \in {"log", "end", "finally"}

\* One logger, new Logger({level: 'info', prefix: 'App', redactFields?}).
Init ==
  /\ \E p \in PartialConfigs({"info"}, "App") : Constructed(<<BaseLoggerConfig(p)>>)
  /\ NoRedaction
  /\ NoSanitization
  /\ NoPerf
  /\ NoTracker

Next ==
  /\ ~Observed
  /\ \/ LogStep({"info"}, Messages, OptContextsOf(Keys))
     \/ SetContextStep(Keys, MaxCalls)
     \/ ChildStep(Keys, MaxCalls)
     \/ TimeStep({1024}, MaxCalls)
     \/ EndStep
     \/ SettleStep({Resolved("result")})
     \/ FinallyStep

Spec == Init /\ [][Next]_vars

(***************************************************************************)
(* SpecLevel: two loggers that differ in level, prefix and redactFields,   *)
(* their children and grandchildren, and log calls at the four levels in   *)
(* any order.                                                              *)
(***************************************************************************)
InitLevel ==
  /\ \E l \in Levels :
       Constructed(<<BaseLoggerConfig([level |-> l, prefix |-> "App",
                                       redactFields |-> <<"b">>]),
                     BaseLoggerConfig([level |-> "warn"])>>)
  /\ NoRedaction
  /\ NoSanitization
  /\ NoPerf
  /\ NoTracker

NextLevel ==
  \/ LogStep(Levels, Messages, TokenOrNothing)
  \/ ChildStep({"token"}, MaxKids)

SpecLevel == InitLevel /\ [][NextLevel]_vars

(***************************************************************************)
(* SpecRedact: redactSensitiveFields as a function.  A logger is           *)
(* constructed with the default or a custom redactFields list, a context   *)
(* is drawn, and the redaction is applied to it and then to its result.    *)
(***************************************************************************)
RedactKeys == {"a", "token", "Token"}
RedactVals == {Str("v1"), REDACTED, Obj("token", "v1")}
RedactContexts == UNION {[K -> RedactVals] : K \in SUBSET RedactKeys}
RedactConfigs ==
  {[level |-> "info"]}
    \cup {[level |-> "info", redactFields |-> rf] :
            rf \in CustomRedactFields \cup {<<>>, <<"a", "Token">>}}

InitRedact ==
  /\ \E p \in RedactConfigs : Constructed(<<BaseLoggerConfig(p)>>)
  /\ rinput \in RedactContexts
  /\ rctx = rinput
  /\ rprev = rinput
  /\ rcount = 0
  /\ NoSanitization
  /\ NoPerf
  /\ NoTracker

Redact ==
  /\ rcount < MaxRedactions
  /\ rctx' = redactSensitiveFields(config[1], rctx)
  /\ rprev' = rctx
  /\ rcount' = rcount + 1
  /\ UNCHANGED <<loggerVars, rinput, sanitizeVars, perfVars, browserVars>>

NextRedact == Redact

SpecRedact == InitRedact /\ [][NextRedact]_vars

(***************************************************************************)
(* Properties.  They are stated on the calls made and the entries written, *)
(* with definitions of their own for rank, merge and fold.                 *)
(***************************************************************************)
Rank(level) ==
  CASE level = "debug" -> 0
    [] level = "info" -> 1
    [] level = "warn" -> 2
    [] level = "error" -> 3

\* Right-biased merge of two mappings.
Overlay(a, b) ==
  [k \in (DOMAIN a) \cup (DOMAIN b) |-> IF k \in DOMAIN b THEN b[k] ELSE a[k]]

\* Right-biased merge of a sequence of mappings, in order.
RECURSIVE OverlayAll(_)
OverlayAll(seq) ==
  IF seq = <<>> THEN EmptyObject
  ELSE Overlay(OverlayAll(SubSeq(seq, 1, Len(seq) - 1)), seq[Len(seq)])

\* The names in the redactFields of logger i.
RedactNames(i) == {config[i].redactFields[n] : n \in DOMAIN config[i].redactFields}

\* The logger at the root of the handle the last call was made on.
RootOf(h) == IF h.kind = "core" THEN h.id ELSE origin[h.id].root

LogCall == call.op = "log"
DirectLogCall == LogCall /\ call.h.kind = "core"
ChildLogCall == LogCall /\ call.h.kind = "kid"

\* The entries the last call passed to any write().
Entries == {written[i][1] : i \in {c \in Cores : written[c] # <<>>}}

\* The layers of the last log call: call-site context and child layer.
CallSite == call.context.ctx
ChildLayer ==
  IF call.h.kind = "kid" THEN objs[kids[call.h.id].childContext] ELSE EmptyObject
LayeredMerge ==
  Overlay(Overlay(globalContext[RootOf(call.h)], ChildLayer), CallSite)

\* ctx shows the mapping `merge` under the redact set `names`: outside the
\* names the same keys and values, on the merge's keys inside them the marker.
ShowsMerge(ctx, merge, names) ==
  \A k \in (DOMAIN ctx) \cup (DOMAIN merge) :
    IF k \in names
    THEN k \in DOMAIN merge => (k \in DOMAIN ctx /\ ctx[k] = REDACTED)
    ELSE k \in DOMAIN merge /\ k \in DOMAIN ctx /\ ctx[k] = merge[k]

IsSetValue(v) == \E n \in 1..Len(Digits) : v = SetValue(n)

\* C1: a call at severity S on a logger of minimum level M writes exactly
\* one entry, in the call itself, when rank(S) >= rank(M) and none
\* otherwise; the entry carries the calling severity and the call's message.
C1_LevelFilter ==
  LogCall =>
    LET r == RootOf(call.h)
    IN /\ \A i \in Cores \ {r} : written[i] = <<>>
       /\ Len(written[r]) = IF Rank(call.level) >= Rank(config[r].level) THEN 1 ELSE 0
       /\ \A e \in Entries :
            /\ e.level = call.level
            /\ e.message \in {call.message, "[" \o Prefix(config[r]) \o "] " \o call.message}

\* An error call on the logger of level 'warn' wrote one entry at 'error'.
C1_Witness ==
  /\ DirectLogCall
  /\ config[call.h.id].level = "warn"
  /\ call.level = "error"
  /\ Len(written[call.h.id]) = 1
  /\ written[call.h.id][1].level = "error"

\* C5: child() creates no logger: the loggers constructed stay the only
\* ones, and an entry emitted through a child or grandchild goes to the
\* write() of the chain's root and nowhere else, filtered by the root's
\* level, with the root's prefix and the root's redact set.
C5_SingleCore ==
  /\ Cardinality(Cores) = 2
  /\ ChildLogCall =>
       LET r == RootOf(call.h)
       IN /\ \A i \in Cores \ {r} : written[i] = <<>>
          /\ (written[r] # <<>>) = (Rank(call.level) >= Rank(config[r].level))
          /\ \A e \in Entries :
               /\ e.message = (IF "prefix" \in DOMAIN config[r]
                               THEN "[" \o config[r].prefix \o "] " \o call.message
                               ELSE call.message)
               /\ \A k \in DOMAIN e.context :
                    (e.context[k] = REDACTED) = (k \in RedactNames(r))

\* A grandchild of the logger with prefix 'App' and redactFields ['b']
\* emitted an entry with that prefix and an unredacted token.
C5_Witness ==
  /\ ChildLogCall
  /\ origin[call.h.id].depth = 2
  /\ origin[call.h.id].root = 1
  /\ written[2] = <<>>
  /\ Len(written[1]) = 1
  /\ written[1][1].message = "[App] x"
  /\ "token" \in DOMAIN written[1][1].context
  /\ written[1][1].context["token"] # REDACTED

\* C2 as stated: the context of an emitted entry equals the right-biased
\* merge of the global context, the child layer and the call-site context.
C2_ContextIsMerge ==
  LogCall => \A e \in Entries : e.context = LayeredMerge

\* C2: the context of an emitted entry agrees with the right-biased merge
\* global context -> child layer -> call-site context (global -> call-site
\* for a direct call) on every key outside redactFields, and carries
\* '[REDACTED]' under every key of the merge named in redactFields.
C2_ContextIsRedactedMerge ==
  LogCall =>
    \A e \in Entries : ShowsMerge(e.context, LayeredMerge, RedactNames(RootOf(call.h)))

\* A child's entry where all three layers supply "a" and the global context
\* supplies a token: the call-site value wins, the token is redacted.
C2_Witness ==
  /\ ChildLogCall
  /\ Entries # {}
  /\ "a" \in DOMAIN globalContext[RootOf(call.h)]
  /\ "a" \in DOMAIN ChildLayer
  /\ "a" \in DOMAIN CallSite
  /\ \A e \in Entries : "a" \in DOMAIN e.context /\ e.context["a"] = CallSiteValue

\* C3: setContext on a child or descendant leaves every logger's global
\* context as it was, and an entry of a direct call on a logger is built
\* from the merge of that logger's own setContext arguments and the
\* call-site context only.
C3_ChildSetContextIsolated ==
  /\ (call.op = "setContext" /\ call.h.kind = "kid") => globalContext = pre.globalContext
  /\ DirectLogCall =>
       \A e \in Entries :
         ShowsMerge(e.context, Overlay(OverlayAll(setArgs[call.h.id]), CallSite),
                    RedactNames(call.h.id))

\* A direct entry of the parent with a context, while a child's layer holds
\* a key set by setContext on the child that the entry does not have.
C3_Witness ==
  /\ DirectLogCall
  /\ \E e \in Entries :
       /\ e.hasContext
       /\ \E j \in Kids :
            \E k \in DOMAIN objs[kids[j].childContext] :
              /\ IsSetValue(objs[kids[j].childContext][k])
              /\ k \notin DOMAIN e.context

\* The setContext arguments given to the root of child j after j was created.
LaterSets(j) == (origin[j].sets + 1)..Len(setArgs[origin[j].root])

\* C4 as stated: an entry emitted through a child contains the keys of
\* every g the parent was given by setContext after the child's creation,
\* with g's values unless the child layer or the call site has the key.
C4_ParentValuesVisible ==
  ChildLogCall =>
    \A e \in Entries :
      \A n \in LaterSets(call.h.id) :
        LET g == setArgs[RootOf(call.h)][n]
        IN \A k \in DOMAIN g :
             /\ k \in DOMAIN e.context
             /\ (k \notin DOMAIN ChildLayer /\ k \notin DOMAIN CallSite)
                  => e.context[k] = g[k]

\* C4: an entry emitted through a child contains the keys of every g the
\* parent was given by setContext after the child's creation; such a key
\* carries '[REDACTED]' when redactFields names it, otherwise the call
\* site's value, else the child layer's, else the value of the latest
\* setContext on the parent that supplied the key.
C4_ParentKeysVisible ==
  ChildLogCall =>
    \A e \in Entries :
      \A n \in LaterSets(call.h.id) :
        \A k \in DOMAIN setArgs[RootOf(call.h)][n] :
          /\ k \in DOMAIN e.context
          /\ e.context[k] =
               IF k \in RedactNames(RootOf(call.h)) THEN REDACTED
               ELSE IF k \in DOMAIN CallSite THEN CallSite[k]
               ELSE IF k \in DOMAIN ChildLayer THEN ChildLayer[k]
               ELSE OverlayAll(setArgs[RootOf(call.h)])[k]

\* A child's entry shows, with g's value, a key the parent was given after
\* the child's creation and that no other layer has.
C4_Witness ==
  /\ ChildLogCall
  /\ \E e \in Entries :
       \E n \in LaterSets(call.h.id) :
         \E k \in DOMAIN setArgs[RootOf(call.h)][n] :
           /\ k \notin DOMAIN ChildLayer
           /\ k \notin DOMAIN CallSite
           /\ k \in DOMAIN e.context
           /\ e.context[k] = setArgs[RootOf(call.h)][n][k]

\* C7: setContext stores the values it is given, unredacted, and no entry
\* written has, under a key named in redactFields, a value other than
\* '[REDACTED]', whichever layer supplied the key.
C7_RedactedAtEmit ==
  /\ call.op = "setContext" =>
       \A k \in DOMAIN call.context.ctx :
         IF call.h.kind = "core"
         THEN globalContext[call.h.id][k] = call.context.ctx[k]
         ELSE objs[kids[call.h.id].childContext][k] = call.context.ctx[k]
  /\ LogCall =>
       \A e \in Entries :
         \A k \in DOMAIN e.context :
           k \in RedactNames(RootOf(call.h)) => e.context[k] = REDACTED

\* A child's entry carries a redacted token while the global context and
\* the child layer both hold a token as it was given.
C7_Witness ==
  /\ ChildLogCall
  /\ "token" \in DOMAIN globalContext[RootOf(call.h)]
  /\ globalContext[RootOf(call.h)]["token"] # REDACTED
  /\ "token" \in DOMAIN ChildLayer
  /\ ChildLayer["token"] # REDACTED
  /\ \E e \in Entries : "token" \in DOMAIN e.context /\ e.context["token"] = REDACTED

\* C9 as stated: an entry's context is never an empty mapping, and an entry
\* has a context exactly when the merge of the global context and the
\* context of the call has at least one key.
C9_ContextIffMergeNonEmpty ==
  LogCall =>
    \A e \in Entries :
      /\ e.hasContext => DOMAIN e.context # {}
      /\ e.hasContext = (DOMAIN LayeredMerge # {})

\* C10: the global context of a logger is the right-biased merge, in call
\* order, of the arguments of the setContext calls made on that logger
\* (empty when there were none); no call removes a key from it, and every
\* call other than a setContext on that logger leaves it as it was.
C10_GlobalContextIsFoldOfSets ==
  \A i \in Cores :
    /\ globalContext[i] = OverlayAll(setArgs[i])
    /\ DOMAIN pre.globalContext[i] \subseteq DOMAIN globalContext[i]
    /\ ~(call.op = "setContext" /\ call.h = CoreHandle(i))
         => globalContext[i] = pre.globalContext[i]

\* After two setContext calls on the logger with the same key, a timer's
\* closure was called: the global context holds the second call's value.
C10_Witness ==
  /\ call.op = "end"
  /\ Len(setArgs[1]) = 2
  /\ "a" \in DOMAIN setArgs[1][1]
  /\ "a" \in DOMAIN setArgs[1][2]
  /\ setArgs[1][1]["a"] # setArgs[1][2]["a"]
  /\ globalContext[1]["a"] = setArgs[1][2]["a"]

\* C6 as stated: redaction keeps the key set, gives '[REDACTED]' to exactly
\* the keys named in the configured redactFields and leaves every other
\* key's value, nested objects included, as it was.
C6_RedactsNamedKeysOnly ==
  rcount = 1 =>
    /\ DOMAIN rctx = DOMAIN rinput
    /\ \A k \in DOMAIN rctx :
         rctx[k] = IF k \in RedactNames(1) THEN REDACTED ELSE rinput[k]

\* C8: redacting the result of a redaction gives that result again.
C8_Idempotent == rcount >= 2 => rctx = rprev

\* A context the first redaction changed was redacted twice.
C8_Witness == rcount = 2 /\ rprev # rinput /\ rctx = rprev

(***************************************************************************)
(* SpecError: error(message, value, context) with every kind of error      *)
(* value, on loggers with and without sanitizeErrors and on their          *)
(* children.                                                               *)
(***************************************************************************)
ErrorValues ==
  {NoErrorArg, NullErrorArg, ObjectErrorArg, BareObjectErrorArg, StringErrorArg(<<>>),
   StringErrorArg(<<"b", "o", "o", "m">>)}
    \cup {ErrorObject("TypeError", <<"t", "o", "k", "e", "n", "=", "a", "b", "c">>, c) :
            c \in {NoCode, StringCode("E_FAIL"), NumberCode("42")}}

InitError ==
  /\ \E l \in {"info", "error"}, se \in BOOLEAN :
       Constructed(<<BaseLoggerConfig([level |-> l, sanitizeErrors |-> se])>>)
  /\ NoRedaction
  /\ NoSanitization
  /\ NoPerf
  /\ NoTracker

ErrorStep ==
  \E h \in Handles, c \in TokenOrNothing, e \in ErrorValues : Log(h, "error", "x", c, e)

\* As in Spec, the error() call is the observation that ends a behaviour.
NextError ==
  /\ ~Observed
  /\ \/ ErrorStep
     \/ ChildStep({"token"}, MaxCalls)

SpecError == InitError /\ [][NextError]_vars

\* String(value) of the values that are not Error instances.
TextOf(value) ==
  CASE value.t = "null" -> <<"n", "u", "l", "l">>
    [] value.t = "undefined" -> <<"u", "n", "d", "e", "f", "i", "n", "e", "d">>
    [] value.t = "object" ->
         <<"[", "o", "b", "j", "e", "c", "t", " ", "O", "b", "j", "e", "c", "t", "]">>
    [] value.t = "string" -> value.s

\* C11 as stated, for the values that are not undefined: an error() call
\* with a string (the empty one included), null or a plain object emits an
\* entry whose error is {name: 'Unknown', message: String(value)}, without
\* code and stack.
C11_NonErrorValuesFormatted ==
  (LogCall /\ call.level = "error" /\ call.error.t \in {"string", "null", "object"}) =>
    /\ Entries # {}
    /\ \A e \in Entries :
         /\ e.hasError
         /\ e.error.name = "Unknown"
         /\ e.error.message = TextOf(call.error)
         /\ ~e.error.hasCode
         /\ ~e.error.hasStack

(***************************************************************************)
(* SpecSanitize: error('x', new Error(message)) for messages that hold one *)
(* key/value pair, on a logger with or without sanitizeErrors.  The secret *)
(* characters are digits, which occur nowhere else in a message.           *)
(***************************************************************************)
SecretChars == {"1", "2"}

SanitizePrefixes == {<<>>, <<"x", " ">>}
SanitizeKeys ==
  {[family |-> "token", key |-> <<"t", "o", "k", "e", "n">>],
   [family |-> "token", key |-> <<"T", "O", "K", "E", "N">>],
   [family |-> "secret", key |-> <<"s", "e", "c", "r", "e", "t">>],
   [family |-> "secret", key |-> <<"S", "e", "c", "r", "e", "t">>],
   [family |-> "password", key |-> <<"p", "a", "s", "s", "w", "o", "r", "d">>],
   [family |-> "api_key", key |-> <<"a", "p", "i", "_", "k", "e", "y">>],
   [family |-> "api_key", key |-> <<"a", "p", "i", "-", "k", "e", "y">>],
   [family |-> "api_key", key |-> <<"A", "P", "I", "K", "E", "Y">>],
   [family |-> "authorization", key |-> <<"a", "u", "t", "h", "o", "r", "i", "z", "a", "t", "i", "o", "n">>],
   [family |-> "authorization", key |-> <<"A", "u", "t", "h", "o", "r", "i", "z", "a", "t", "i", "o", "n">>],
   [family |-> "access_token", key |-> <<"a", "c", "c", "e", "s", "s", "_", "t", "o", "k", "e", "n">>],
   [family |-> "access_token", key |-> <<"a", "c", "c", "e", "s", "s", "-", "t", "o", "k", "e", "n">>],
   [family |-> "refresh_token", key |-> <<"r", "e", "f", "r", "e", "s", "h", "_", "t", "o", "k", "e", "n">>],
   [family |-> "refresh_token", key |-> <<"r", "e", "f", "r", "e", "s", "h", "T", "o", "k", "e", "n">>]}
SanitizeDelims == {<<"=">>, <<":">>, <<":", " ">>}
\* Values: unquoted, quoted with a space, a comma or the other quote
\* character inside, and Bearer-prefixed.
SanitizeValues ==
  {[quote |-> <<>>, value |-> <<"1", "2">>],
   [quote |-> <<"\"">>, value |-> <<"1", " ", "2">>],
   [quote |-> <<"'">>, value |-> <<"1", ",", "2">>],
   [quote |-> <<"\"">>, value |-> <<"1", "'", "2">>],
   [quote |-> <<>>, value |-> <<"B", "e", "a", "r", "e", "r", " ", "1", "2">>]}
SanitizeSuffixes == {<<>>, <<" ", "y">>, <<",", " ", "z">>}

SanitizeParts ==
  {[prefix |-> p, family |-> k.family, key |-> k.key, delim |-> d, quote |-> v.quote,
    value |-> v.value, suffix |-> sfx] :
     p \in SanitizePrefixes, k \in SanitizeKeys, d \in SanitizeDelims,
     v \in SanitizeValues, sfx \in SanitizeSuffixes}

MessageOf(ps) ==
  ps.prefix \o ps.key \o ps.delim \o ps.quote \o ps.value \o ps.quote \o ps.suffix

InitSanitize ==
  /\ \E se \in BOOLEAN :
       Constructed(<<BaseLoggerConfig([level |-> "info", sanitizeErrors |-> se])>>)
  /\ NoRedaction
  /\ NoPerf
  /\ NoTracker
  /\ parts \in SanitizeParts

LogError ==
  /\ ~Observed
  /\ Log(CoreHandle(1), "error", "x", Undefined,
         ErrorObject("Error", MessageOf(parts), NoCode))

NextSanitize == LogError

SpecSanitize == InitSanitize /\ [][NextSanitize]_vars

\* The error() call of SpecSanitize on a logger with sanitizeErrors.
SanitizedCall == LogCall /\ parts # NoParts /\ config[1].sanitizeErrors

BearerPrefix == <<"B", "e", "a", "r", "e", "r", " ">>
IsBearerValue(ps) ==
  /\ ps.quote = <<>>
  /\ Len(ps.value) > Len(BearerPrefix)
  /\ SubSeq(ps.value, 1, Len(BearerPrefix)) = BearerPrefix

\* A quoted value holds no quote character.
IsPlainValue(ps) == \A n \in DOMAIN ps.value : ps.value[n] \notin {"\"", "'"}

Sentinel == <<"[", "R", "E", "D", "A", "C", "T", "E", "D", "]">>

\* The text from its first whitespace character on.
RECURSIVE FromFirstSpace(_)
FromFirstSpace(text) ==
  IF text = <<>> THEN <<>>
  ELSE IF Head(text) = " " THEN text
  ELSE FromFirstSpace(Tail(text))

\* The key name a family's rule writes.
CanonicalKey(family) ==
  CASE family = "token" -> <<"t", "o", "k", "e", "n">>
    [] family = "secret" -> <<"s", "e", "c", "r", "e", "t">>
    [] family = "password" -> <<"p", "a", "s", "s", "w", "o", "r", "d">>
    [] family = "api_key" -> <<"a", "p", "i", "_", "k", "e", "y">>
    [] family = "authorization" ->
         <<"a", "u", "t", "h", "o", "r", "i", "z", "a", "t", "i", "o", "n">>
    [] family = "access_token" ->
         <<"a", "c", "c", "e", "s", "s", "_", "t", "o", "k", "e", "n">>
    [] family = "refresh_token" ->
         <<"r", "e", "f", "r", "e", "s", "h", "_", "t", "o", "k", "e", "n">>

\* C12 as stated: with sanitizeErrors, for a message holding key=value or
\* key:value of one of the seven families, quoted or unquoted (for
\* authorization: a value that is not Bearer-prefixed), no character of the
\* secret value remains in the message of the emitted entry.
C12_NoSecretRemains ==
  (SanitizedCall /\ ~(parts.family = "authorization" /\ IsBearerValue(parts))) =>
    \A e \in Entries :
      \A n \in DOMAIN e.error.message : e.error.message[n] \notin SecretChars

\* C13: a message holding 'authorization=Bearer <token>' or 'Authorization:
\* Bearer <token>' is sanitized by the bearer rule only: the text up to and
\* including 'Bearer ' is as in the input, the token (the characters up to
\* the next whitespace) is '[REDACTED]', the rest follows unchanged.
C13_BearerRuleOnly ==
  (SanitizedCall /\ parts.family = "authorization" /\ IsBearerValue(parts)) =>
    \A e \in Entries :
      e.error.message =
        parts.prefix \o parts.key \o parts.delim \o BearerPrefix \o Sentinel
          \o FromFirstSpace(parts.suffix)

\* 'x Authorization: Bearer 12 y' was sanitized to
\* 'x Authorization: Bearer [REDACTED] y'.
C13_Witness ==
  /\ SanitizedCall
  /\ parts.prefix = <<"x", " ">>
  /\ parts.key = <<"A", "u", "t", "h", "o", "r", "i", "z", "a", "t", "i", "o", "n">>
  /\ parts.delim = <<":", " ">>
  /\ IsBearerValue(parts)
  /\ parts.suffix = <<" ", "y">>
  /\ \E e \in Entries :
       e.error.message =
         parts.prefix \o parts.key \o parts.delim \o BearerPrefix \o Sentinel
           \o parts.suffix

\* C14 as stated: a rule rewrites only the value of the pair it matches and
\* keeps the key name and the delimiter as written.
C14_KeyAndDelimiterKept ==
  (SanitizedCall /\ ~IsBearerValue(parts) /\ IsPlainValue(parts)) =>
    \A e \in Entries :
      e.error.message =
        parts.prefix \o parts.key \o parts.delim \o Sentinel \o parts.suffix

\* C14: a key/value rule replaces the whole pair it matches (key, delimiter,
\* whitespace after it and value) by the family's key name in lower case
\* with '_', '=' and '[REDACTED]'; the text around the pair is kept.  Stated
\* for values that are not Bearer-prefixed and hold no quote character.
C14_PairRewrittenCanonically ==
  (SanitizedCall /\ ~IsBearerValue(parts) /\ IsPlainValue(parts)) =>
    \A e \in Entries :
      e.error.message =
        parts.prefix \o CanonicalKey(parts.family) \o <<"=">> \o Sentinel
          \o parts.suffix

\* 'APIKEY: "1 2", z' was sanitized to 'api_key=[REDACTED], z'.
C14_Witness ==
  /\ SanitizedCall
  /\ parts.prefix = <<>>
  /\ parts.key = <<"A", "P", "I", "K", "E", "Y">>
  /\ parts.delim = <<":", " ">>
  /\ parts.quote = <<"\"">>
  /\ parts.value = <<"1", " ", "2">>
  /\ parts.suffix = <<",", " ", "z">>
  /\ \E e \in Entries :
       e.error.message = 
         <<"a", "p", "i", "_", "k", "e", "y", "=", "[", "R", "E", "D", "A", "C", "T", "E", "D", "]", ",", " ", "z">>
(***************************************************************************)
(* SpecTime: one logger, its children, time() closures and timeAsync       *)
(* calls.  The logger either passes debug (with or without a prefix) or    *)
(* filters it.                                                             *)
(***************************************************************************)
TimeConfigs ==
  {BaseLoggerConfig([level |-> "debug", prefix |-> "App"]),
   BaseLoggerConfig([level |-> "debug"]),
   BaseLoggerConfig(EmptyObject)}

InitTime ==
  /\ \E cfg \in TimeConfigs : Constructed(<<cfg>>)
  /\ NoRedaction
  /\ NoSanitization
  /\ NoPerf
  /\ NoTracker

NextTime ==
  \/ TimeStep(ClockReadings, MaxTimeCalls)
  \/ SetContextStep({"label"}, MaxTimeCalls)
  \/ ChildStep({"a"}, MaxTimeCalls)
  \/ EndStep
  \/ SettleStep(Outcomes)
  \/ FinallyStep
  \/ DeliverStep

SpecTime == InitTime /\ [][NextTime]_vars

\* The timer whose closure the last call ran, the elapsed time of that run
\* and the logger the closure belongs to.
TimerOfCall == timers[call.t]
Elapsed == call.now - TimerOfCall.start
PassesDebug(i) == Rank(config[i].level) <= Rank("debug")

\* The text the logger puts in front of every message.
PrefixText(i) ==
  IF "prefix" \in DOMAIN config[i] /\ config[i].prefix # ""
  THEN "[" \o config[i].prefix \o "] " ELSE ""

\* Exactly one entry was written by the last call, by logger i, and it is the
\* timing entry of timer tm for the elapsed time us.
OneTimingEntry(i, tm, us) ==
  /\ \A j \in Cores : Len(written[j]) = IF j = i THEN 1 ELSE 0
  /\ LET e == written[i][1]
     IN /\ e.level = "debug"
        /\ e.message = PrefixText(i) \o tm.label \o ": " \o toFixed2(us, TicksPerMs) \o "ms"
        /\ e.hasContext
        /\ {"duration", "label"} \subseteq DOMAIN e.context
        /\ e.context.duration = Num(us)
        /\ e.context.label = Str(tm.label)
        /\ ~e.hasError

NothingWritten == \A j \in Cores : written[j] = <<>>

\* C15: every call of the closure that time(label) returned returns the
\* elapsed time now - start; if the logger's level passes debug the call
\* emits exactly one debug entry whose message is (after the logger's prefix)
\* "<label>: <elapsed to two decimals>ms" and whose context carries
\* duration = elapsed and label = label; if debug is filtered the call emits
\* nothing and still returns the duration.
C15_TimeClosure ==
  call.op = "end" =>
    /\ call.ret = Elapsed
    /\ IF PassesDebug(TimerOfCall.logger)
       THEN OneTimingEntry(TimerOfCall.logger, TimerOfCall, Elapsed)
       ELSE NothingWritten

\* A closure started at 1.000 ms and called at 3.456 ms on the prefixed debug
\* logger, whose global context has a label of its own.
C15_Witness ==
  /\ call.op = "end"
  /\ call.ret = 2515
  /\ "label" \in DOMAIN globalContext[1]
  /\ written[1] # <<>>
  /\ written[1][1].message = "[App] op: 2.46ms"
  /\ written[1][1].context.duration = Num(2515)

\* C16: timeAsync(label, fn) settles as fn settled (same resolved value or
\* same rejection), and its finally block calls the closure exactly once in
\* both cases: not while fn is pending, and before the outcome reaches the
\* caller; on a logger that passes debug that call emits exactly one timing
\* entry.
C16_TimeAsync ==
  /\ \A t \in DOMAIN timers :
       timers[t].async =>
         /\ timers[t].pc \in {"await", "finally"} => timers[t].ends = 0
         /\ timers[t].pc \in {"return", "done"} =>
              timers[t].ends = 1 /\ timers[t].outcome \in Outcomes
         /\ timers[t].pc = "done" => timers[t].result = timers[t].outcome
         /\ timers[t].pc # "done" => timers[t].result = NoOutcome
  /\ call.op = "finally" =>
       /\ TimerOfCall.async /\ TimerOfCall.pc = "return"
       /\ IF PassesDebug(TimerOfCall.logger)
          THEN OneTimingEntry(TimerOfCall.logger, TimerOfCall, Elapsed)
          ELSE NothingWritten

\* A rejected fn on a debug logger: the rejection has reached the caller and
\* the closure has run once.
C16_Witness ==
  \E t \in DOMAIN timers :
    /\ timers[t].async
    /\ timers[t].pc = "done"
    /\ timers[t].outcome = Rejected("failure")
    /\ timers[t].result = Rejected("failure")
    /\ timers[t].ends = 1
    /\ PassesDebug(timers[t].logger)

(***************************************************************************)
(* The perf registry of the browser preset: two module-level maps shared   *)
(* by every caller.  Times are whole milliseconds; the average is kept as  *)
(* an exact fraction.                                                      *)
(***************************************************************************)
PerfLabels == {"render", "fetch"}

\* The labels given to measure and measureSync.
MeasuredLabels == {"fetch"}

\* map.delete(k) on a copy.
MapDelete(map, k) == [x \in (DOMAIN map) \ {k} |-> map[x]]

\* The keys of a Map, in insertion order, after map.set(k, ...): a key the
\* Map has keeps its place, a new one goes last.
MapSetKeys(keys, k) ==
  IF \E i \in DOMAIN keys : keys[i] = k THEN keys ELSE Append(keys, k)

RECURSIVE GCD(_, _)
GCD(a, b) == IF b = 0 THEN a ELSE GCD(b, a % b)

\* a / b for b > 0, in lowest terms.
Divide(a, b) ==
  LET g == GCD(a, b) IN IF g = 0 THEN [num |-> 0, den |-> 1]
                        ELSE [num |-> a \div g, den |-> b \div g]

Min(a, b) == IF a <= b THEN a ELSE b
Max(a, b) == IF a >= b THEN a ELSE b

StartWarning(label) ==
  "Timer \"" \o label \o "\" is already active. Call end() before starting again, "
    \o "or use a unique label for concurrent operations."
EndWarning(label) == "No timer started for label: " \o label

\* The result of a perf call: the registry after it, what it printed and
\* what it returned.
PerfResult(reg, printed, ok, ret) ==
  [reg |-> reg, console |-> printed, ok |-> ok, ret |-> ret]

\* perf.start before the fix of LOGGER-BUG-001: the start time is overwritten.
perfStartOverwriting(reg, label, t) ==
  PerfResult([reg EXCEPT !.activeTimers = Assign(reg.activeTimers, label, t)],
             <<>>, TRUE, 0)

\* perf.start(label) at clock reading t.
perfStart(reg, label, t) ==
  IF label \in DOMAIN reg.activeTimers
  THEN PerfResult(reg, <<[method |-> "warn", text |-> StartWarning(label)]>>, FALSE, 0)
  ELSE PerfResult([reg EXCEPT !.activeTimers = Assign(reg.activeTimers, label, t)],
                  <<>>, TRUE, 0)

\* A fold that averages over the previous count.
foldDurationStaleCount(existing, duration) ==
  [count |-> existing.count + 1,
   totalTime |-> existing.totalTime + duration,
   minTime |-> Min(existing.minTime, duration),
   maxTime |-> Max(existing.maxTime, duration),
   avgTime |-> Divide(existing.totalTime + duration, existing.count)]

\* The update of an existing MetricsData by one more duration.
foldDuration(existing, duration) ==
  [count |-> existing.count + 1,
   totalTime |-> existing.totalTime + duration,
   minTime |-> Min(existing.minTime, duration),
   maxTime |-> Max(existing.maxTime, duration),
   avgTime |-> Divide(existing.totalTime + duration, existing.count + 1)]

\* The MetricsData of a label's first duration.
firstDuration(duration) ==
  [count |-> 1, totalTime |-> duration, minTime |-> duration, maxTime |-> duration,
   avgTime |-> Divide(duration, 1)]

\* A perf.end that records a zero duration for a label that was never started.
perfEndRecordingUnstarted(reg, label, t) ==
  LET startTime == IF label \in DOMAIN reg.activeTimers THEN reg.activeTimers[label] ELSE t
      duration == t - startTime
  IN PerfResult([activeTimers |-> MapDelete(reg.activeTimers, label),
                 metricsStore |->
                   Assign(reg.metricsStore, label,
                          IF label \in DOMAIN reg.metricsStore
                          THEN foldDuration(reg.metricsStore[label], duration)
                          ELSE firstDuration(duration)),
                 metricsKeys |-> MapSetKeys(reg.metricsKeys, label)],
                <<>>, label \in DOMAIN reg.activeTimers, duration)

\* perf.end(label) at clock reading t.
perfEnd(reg, label, t) ==
  IF label \notin DOMAIN reg.activeTimers
  THEN PerfResult(reg, <<[method |-> "warn", text |-> EndWarning(label)]>>, FALSE, 0)
  ELSE LET duration == t - reg.activeTimers[label]
       IN PerfResult([activeTimers |-> MapDelete(reg.activeTimers, label),
                      metricsStore |->
                        Assign(reg.metricsStore, label,
                               IF label \in DOMAIN reg.metricsStore
                               THEN foldDuration(reg.metricsStore[label], duration)
                               ELSE firstDuration(duration)),
                      metricsKeys |-> MapSetKeys(reg.metricsKeys, label)],
                     <<>>, TRUE, duration)

\* The registry and the console after a perf call with result r.
Apply(r) ==
  /\ activeTimers' = r.reg.activeTimers
  /\ metricsStore' = r.reg.metricsStore
  /\ metricsKeys' = r.reg.metricsKeys
  /\ console' = r.console
  /\ ppre' = Registry

\* The durations recorded for `label`, with one more if the end found a timer.
Recorded(label, r) ==
  IF r.ok
  THEN Assign(ended, label,
              (IF label \in DOMAIN ended THEN ended[label] ELSE <<>>) \o <<r.ret>>)
  ELSE ended

\* A call whose fn is still running on the stack of the call: the fn of
\* measureSync, or a fn of measure that throws before it returns a promise.
\* Nothing but what fn itself calls can happen then, and such calls made by
\* fn finish first.
SyncRunning(m) == (measures[m].sync \/ measures[m].throws) /\ measures[m].pc = "fn"

\* The application calls perf.start(label).
PerfStart(label) ==
  /\ nperf < MaxPerfCalls
  /\ LET r == perfStart(Registry, label, now)
     IN /\ Apply(r)
        /\ pcall' = [NoPerfCall EXCEPT !.op = "start", !.label = label, !.at = now,
                                       !.ok = r.ok]
  /\ nperf' = nperf + 1
  /\ UNCHANGED <<now, measures, ended>>
  /\ UNCHANGED <<loggerVars, redactVars, sanitizeVars, browserVars>>

\* The application calls perf.end(label).
PerfEnd(label) ==
  /\ LET r == perfEnd(Registry, label, now)
     IN /\ Apply(r)
        /\ ended' = Recorded(label, r)
        /\ pcall' = [NoPerfCall EXCEPT !.op = "end", !.label = label, !.at = now,
                                       !.ok = r.ok,
                                       !.ret = r.ret]
  /\ UNCHANGED <<now, measures, nperf>>
  /\ UNCHANGED <<loggerVars, redactVars, sanitizeVars, browserVars>>

\* perf.measureSync(label, fn) (sync), or perf.measure(label, fn) with a fn
\* that returns a promise or with one that throws before it does (throws),
\* up to the call of fn: this.start(label), its result ignored.
Measure(label, sync, throws) ==
  /\ nperf < MaxPerfCalls
  /\ ~(sync /\ throws)
  /\ LET r == perfStart(Registry, label, now)
     IN /\ Apply(r)
        /\ measures' = Append(measures, [label |-> label, sync |-> sync,
                                         throws |-> throws, pc |-> "fn",
                                         started |-> r.ok, outcome |-> NoOutcome])
        /\ pcall' = [NoPerfCall EXCEPT !.op = "measure", !.label = label, !.at = now,
                                       !.ok = r.ok,
                                       !.m = Len(measures) + 1]
  /\ nperf' = nperf + 1
  /\ UNCHANGED <<now, ended>>
  /\ UNCHANGED <<loggerVars, redactVars, sanitizeVars, browserVars>>

\* A measure that ends the timer only after a successful fn (no finally).
measureCleanupOnSuccess(outcome) == outcome.kind = "resolved"

\* try { return [await] fn() } finally { this.end(label) }: the cleanup runs
\* whatever the outcome of fn.
measureCleanup(outcome) == TRUE

\* The completion of the try statement: the value of fn returned, or its
\* failure rethrown.
measureResult(outcome) == outcome

\* A measure that ends the timer only if its own start was accepted.
measureEndsOwnTimer(started) == started

\* this.start(label) is a statement: what it returned plays no part in the
\* cleanup.
measureEndsAnyTimer(started) == TRUE

\* The finally block of measure call m, fn having finished with `outcome`:
\* this.end(label).
measureFinally(reg, m, outcome, t) ==
  IF measureCleanup(outcome) /\ measureEndsAnyTimer(measures[m].started)
  THEN perfEnd(reg, measures[m].label, t)
  ELSE PerfResult(reg, <<>>, FALSE, 0)

\* The fn of measure call m finishes with `outcome` and the finally block
\* runs.  measureSync: inside the call, which then returns the value or
\* rethrows the failure (pc "done").  measure with a fn that throws before it
\* returns a promise: inside the call too, `await` never being reached.
\* measure with a fn that returned a promise: in the continuation of
\* `await fn()`, which cannot run while a fn is on the stack.  The promise of
\* measure settles either way, and its outcome, kept in the frame until
\* then, reaches the caller in a later job (pc "return").
MeasureFinish(m, outcome) ==
  /\ measures[m].pc = "fn"
  /\ measures[m].throws => outcome.kind = "rejected"
  /\ IF measures[m].sync \/ measures[m].throws
     THEN \A k \in DOMAIN measures : k > m => ~SyncRunning(k)
     ELSE \A k \in DOMAIN measures : ~SyncRunning(k)
  /\ LET label == measures[m].label
         r == measureFinally(Registry, m, outcome, now)
     IN /\ Apply(r)
        /\ ended' = Recorded(label, r)
        /\ pcall' = [NoPerfCall EXCEPT !.op = "finish", !.label = label, !.at = now,
                                       !.ok = r.ok,
                                       !.ret = r.ret, !.m = m,
                                       !.outcome = outcome,
                                       !.result = IF measures[m].sync
                                                  THEN measureResult(outcome)
                                                  ELSE NoOutcome]
  /\ measures' = [measures EXCEPT ![m].pc = IF measures[m].sync THEN "done" ELSE "return",
                                  ![m].outcome = IF measures[m].sync THEN NoOutcome
                                                 ELSE outcome]
  /\ UNCHANGED <<now, nperf>>
  /\ UNCHANGED <<loggerVars, redactVars, sanitizeVars, browserVars>>

\* The outcome of a measure call reaches its caller: a job of its own, after
\* the one that ran the finally block.
MeasureDeliver(m) ==
  /\ measures[m].pc = "return"
  /\ \A k \in DOMAIN measures : ~SyncRunning(k)
  /\ measures' = [measures EXCEPT ![m].pc = "done", ![m].outcome = NoOutcome]
  /\ pcall' = [NoPerfCall EXCEPT !.op = "deliver", !.label = measures[m].label,
                                 !.at = now, !.m = m,
                                 !.outcome = measures[m].outcome,
                                 !.result = measureResult(measures[m].outcome)]
  /\ console' = <<>>
  /\ ppre' = Registry
  /\ UNCHANGED <<activeTimers, metricsStore, metricsKeys, now, ended, nperf>>
  /\ UNCHANGED <<loggerVars, redactVars, sanitizeVars, browserVars>>

\* The line logMetrics prints for one label.
MetricsLine(label, metrics) ==
  label \o ": count=" \o NumberToString(metrics.count)
    \o ", avg=" \o toFixed2(metrics.avgTime.num, metrics.avgTime.den)
    \o "ms, min=" \o toFixed2(metrics.minTime, 1)
    \o "ms, max=" \o toFixed2(metrics.maxTime, 1) \o "ms"

\* What perf.logMetrics() prints: a group, one line per label in the Map's
\* order, the end of the group.
logMetrics(reg) ==
  <<[method |-> "group", text |-> "Performance Metrics"]>>
    \o [i \in DOMAIN reg.metricsKeys |->
          [method |-> "log",
           text |-> MetricsLine(reg.metricsKeys[i], reg.metricsStore[reg.metricsKeys[i]])]]
    \o <<[method |-> "groupEnd", text |-> ""]>>

\* The application calls perf.logMetrics().
LogMetrics ==
  /\ nperf < MaxPerfCalls
  /\ console' = logMetrics(Registry)
  /\ ppre' = Registry
  /\ pcall' = [NoPerfCall EXCEPT !.op = "logMetrics", !.at = now]
  /\ nperf' = nperf + 1
  /\ UNCHANGED <<activeTimers, metricsStore, metricsKeys, now, measures, ended>>
  /\ UNCHANGED <<loggerVars, redactVars, sanitizeVars, browserVars>>

\* A clearMetrics that forgets the timers in flight.
ClearMetricsKeepingTimers ==
  /\ activeTimers' = activeTimers
  /\ metricsStore' = EmptyObject
  /\ metricsKeys' = <<>>
  /\ console' = <<>>
  /\ ppre' = Registry
  /\ ended' = EmptyObject
  /\ pcall' = [NoPerfCall EXCEPT !.op = "clear", !.at = now]
  /\ UNCHANGED <<now, measures, nperf>>
  /\ UNCHANGED <<loggerVars, redactVars, sanitizeVars, browserVars>>

\* perf.clearMetrics().
ClearMetrics ==
  /\ activeTimers' = EmptyObject
  /\ metricsStore' = EmptyObject
  /\ metricsKeys' = <<>>
  /\ console' = <<>>
  /\ ppre' = Registry
  /\ ended' = EmptyObject
  /\ pcall' = [NoPerfCall EXCEPT !.op = "clear", !.at = now]
  /\ UNCHANGED <<now, measures, nperf>>
  /\ UNCHANGED <<loggerVars, redactVars, sanitizeVars, browserVars>>

\* performance.now() advances.
Tick ==
  /\ now < MaxClock
  /\ now' = now + 1
  /\ UNCHANGED <<activeTimers, metricsStore, metricsKeys, console, measures, pcall, ppre,
                 ended, nperf>>
  /\ UNCHANGED <<loggerVars, redactVars, sanitizeVars, browserVars>>

\* An async fn cannot make progress, and the application cannot be called
\* back, while a measureSync call is on the stack; what runs then is the fn
\* of that call, which may use perf itself.
InitPerf ==
  /\ Constructed(<<BaseLoggerConfig(EmptyObject)>>)
  /\ NoRedaction
  /\ NoSanitization
  /\ NoPerf
  /\ NoTracker

NextPerf ==
  \/ \E l \in PerfLabels : PerfStart(l)
  \/ \E l \in PerfLabels : PerfEnd(l)
  \/ \E l \in MeasuredLabels, sync, throws \in BOOLEAN : Measure(l, sync, throws)
  \/ \E m \in DOMAIN measures, o \in Outcomes : MeasureFinish(m, o)
  \/ \E m \in DOMAIN measures : MeasureDeliver(m)
  \/ LogMetrics
  \/ ClearMetrics
  \/ Tick

SpecPerf == InitPerf /\ [][NextPerf]_vars

\* The last perf call was a perf.start / perf.end made by the application,
\* or the cleanup of a measure call.
StartCall == pcall.op = "start"
EndCall == pcall.op = "end"
FinishCall == pcall.op = "finish"
WasActive == pcall.label \in DOMAIN ppre.activeTimers
Warned(text) == console = <<[method |-> "warn", text |-> text]>>

\* C17: perf.start on a label with an active timer warns, returns false and
\* leaves both maps as they were (the stored start time is not overwritten);
\* on a label without one it records the clock reading and returns true; a
\* perf.end that finds the timer returns the time since the stored start.
C17_StartKeepsFirstStart ==
  /\ StartCall =>
       IF WasActive
       THEN /\ ~pcall.ok
            /\ Warned(StartWarning(pcall.label))
            /\ activeTimers = ppre.activeTimers
            /\ metricsStore = ppre.metricsStore
       ELSE /\ pcall.ok
            /\ console = <<>>
            /\ DOMAIN activeTimers = DOMAIN ppre.activeTimers \cup {pcall.label}
            /\ activeTimers[pcall.label] = pcall.at
            /\ \A l \in DOMAIN ppre.activeTimers : activeTimers[l] = ppre.activeTimers[l]
            /\ metricsStore = ppre.metricsStore
  /\ (EndCall /\ WasActive) => pcall.ret = pcall.at - ppre.activeTimers[pcall.label]

\* A second perf.start made after the clock moved on: the first start time
\* is still the stored one.
C17_Witness ==
  /\ StartCall
  /\ WasActive
  /\ ~pcall.ok
  /\ activeTimers[pcall.label] < pcall.at

\* C18: perf.end on a label without an active timer warns, returns 0 and
\* leaves the active timers and the metrics as they were.
C18_EndOfUnstarted ==
  (EndCall /\ ~WasActive) =>
    /\ ~pcall.ok
    /\ pcall.ret = 0
    /\ Warned(EndWarning(pcall.label))
    /\ activeTimers = ppre.activeTimers
    /\ metricsStore = ppre.metricsStore

\* perf.end of a label that has metrics but no timer, another timer running.
C18_Witness ==
  /\ EndCall
  /\ ~WasActive
  /\ pcall.label \in DOMAIN metricsStore
  /\ activeTimers # EmptyObject

RECURSIVE SumOf(_)
SumOf(seq) == IF seq = <<>> THEN 0 ELSE seq[1] + SumOf(Tail(seq))
Range(seq) == {seq[i] : i \in DOMAIN seq}

\* C19: the metrics map has exactly the labels whose timer was ended since
\* the last clear, and for each of them count is the number of those ends,
\* totalTime the sum of their durations, minTime and maxTime the least and
\* the greatest of them, avgTime = totalTime / count; an end that finds the
\* timer removes it from the active timers.
C19_MetricsAggregate ==
  /\ DOMAIN metricsStore = DOMAIN ended
  /\ \A l \in DOMAIN metricsStore :
       LET d == ended[l]
           x == metricsStore[l]
       IN /\ x.count = Len(d)
          /\ x.count >= 1
          /\ x.totalTime = SumOf(d)
          /\ x.minTime \in Range(d) /\ \A v \in Range(d) : x.minTime <= v
          /\ x.maxTime \in Range(d) /\ \A v \in Range(d) : x.maxTime >= v
          /\ x.minTime <= x.maxTime
          /\ x.avgTime.den > 0
          /\ x.avgTime.num * x.count = x.totalTime * x.avgTime.den
  /\ ((EndCall \/ FinishCall) /\ pcall.ok) => pcall.label \notin DOMAIN activeTimers

\* Two ends of different durations on one label.
C19_Witness ==
  \E l \in DOMAIN metricsStore :
    /\ metricsStore[l].count = 2
    /\ metricsStore[l].minTime < metricsStore[l].maxTime
    /\ metricsStore[l].avgTime.den = 2

\* The last perf step was the arrival of a measure call's outcome at its
\* caller.
DeliverCall == pcall.op = "deliver"

\* The label's metrics are those before the last step with one more duration.
FoldedIn(l, duration) ==
  LET had == l \in DOMAIN ppre.metricsStore
  IN /\ l \in DOMAIN metricsStore
     /\ metricsStore[l].count = IF had THEN ppre.metricsStore[l].count + 1 ELSE 1
     /\ metricsStore[l].totalTime =
          IF had THEN ppre.metricsStore[l].totalTime + duration ELSE duration

\* The caller of measure / measureSync gets fn's value or fn's failure: from
\* measureSync when the cleanup has run, from measure in a later job.
OutcomePropagated ==
  /\ FinishCall =>
       /\ pcall.outcome \in Outcomes
       /\ measures[pcall.m].sync => pcall.result = pcall.outcome
  /\ DeliverCall =>
       /\ pcall.result = pcall.outcome
       /\ pcall.result \in Outcomes
  /\ \A m \in DOMAIN measures :
       (measures[m].pc = "return") => measures[m].outcome \in Outcomes

\* C20 as stated: when the fn of measure / measureSync finishes, by
\* returning or by throwing (rejecting), the timer is ended and one more
\* duration is recorded in the label's metrics; the caller gets fn's value,
\* or fn's failure.
C20_DurationAlwaysRecorded ==
  /\ FinishCall =>
       /\ pcall.label \notin DOMAIN activeTimers
       /\ pcall.ok
       /\ pcall.label \in DOMAIN metricsStore
       /\ metricsStore[pcall.label].count =
            1 + (IF pcall.label \in DOMAIN ppre.metricsStore
                 THEN ppre.metricsStore[pcall.label].count ELSE 0)
  /\ OutcomePropagated

\* C20: when the fn of measure / measureSync finishes, by returning or by
\* throwing (rejecting, or throwing before it returns a promise),
\* perf.end(label) runs and no timer of the label remains.  If the label
\* has a timer at that moment, the time since that timer's start is folded
\* into the label's metrics; if it has none (an overlapping call on the
\* label, a perf.end or a clearMetrics closed it meanwhile) the cleanup
\* warns, returns 0 and records nothing.  The caller gets fn's value, or
\* fn's failure (from measureSync at once, from measure in a later job).
C20_MeasureCleanup ==
  /\ FinishCall =>
       /\ pcall.label \notin DOMAIN activeTimers
       /\ IF WasActive
          THEN /\ pcall.ok
               /\ pcall.ret = pcall.at - ppre.activeTimers[pcall.label]
               /\ FoldedIn(pcall.label, pcall.at - ppre.activeTimers[pcall.label])
          ELSE /\ ~pcall.ok
               /\ pcall.ret = 0
               /\ Warned(EndWarning(pcall.label))
               /\ metricsStore = ppre.metricsStore
  /\ OutcomePropagated

\* A measure call whose start was accepted and whose fn failed after the
\* label's timer had been closed by someone else: the cleanup ran and found
\* nothing to record.
C20_Witness ==
  /\ FinishCall
  /\ pcall.outcome = Rejected("failure")
  /\ measures[pcall.m].started
  /\ ~WasActive
  /\ ~pcall.ok
  /\ pcall.ret = 0
ClearCall == pcall.op = "clear"

\* The perf call made next after a clearMetrics, on a label whose timer was
\* in flight when the maps were cleared.
AfterClearOfInFlight(op) ==
  /\ ClearCall
  /\ pcall'.op = op
  /\ pcall'.label \in DOMAIN ppre.activeTimers

\* C21: perf.clearMetrics() leaves both maps empty, whatever they held; the
\* perf.end made next on a label whose timer was in flight returns 0 and
\* records no metric, and the perf.start made next on such a label succeeds.
C21_ClearEmptiesBothMaps ==
  /\ [](ClearCall => activeTimers = EmptyObject /\ metricsStore = EmptyObject)
  /\ [][AfterClearOfInFlight("end") =>
          /\ pcall'.ret = 0
          /\ ~pcall'.ok
          /\ metricsStore' = EmptyObject
          /\ activeTimers' = EmptyObject]_vars
  /\ [][AfterClearOfInFlight("start") =>
          /\ pcall'.ok
          /\ activeTimers' = [l \in {pcall'.label} |-> pcall'.at]]_vars

\* A clearMetrics made while one label had metrics and a timer was in flight.
C21_Witness ==
  /\ ClearCall
  /\ ppre.activeTimers # EmptyObject
  /\ ppre.metricsStore # EmptyObject
  /\ activeTimers = EmptyObject
\* The texts "<label>: <duration>ms" for a duration of ms milliseconds,
\* written as an integer or with two decimals.
DurationLines(label, ms) ==
  {label \o ": " \o NumberToString(ms) \o "ms",
   label \o ": " \o toFixed2(ms, 1) \o "ms"}

\* C23: a perf.end that finds the label's timer prints a line
\* "<label>: <duration>ms" on the console, besides returning the duration.
C23_EndLogsDuration ==
  (EndCall /\ WasActive) =>
    \E i \in DOMAIN console : console[i].text \in DurationLines(pcall.label, pcall.ret)
(***************************************************************************)
(* SpecMeasure: the registry used through measure and measureSync only.    *)
(***************************************************************************)
NextMeasure ==
  \/ \E l \in PerfLabels, sync, throws \in BOOLEAN : Measure(l, sync, throws)
  \/ \E m \in DOMAIN measures, o \in Outcomes : MeasureFinish(m, o)
  \/ \E m \in DOMAIN measures : MeasureDeliver(m)
  \/ Tick

SpecMeasure == InitPerf /\ [][NextMeasure]_vars

MeasureCall == pcall.op = "measure"
AcceptedStarts(l) ==
  Cardinality({m \in DOMAIN measures : measures[m].label = l /\ measures[m].started})
CountOf(l) == IF l \in DOMAIN metricsStore THEN metricsStore[l].count ELSE 0
AllDone == \A m \in DOMAIN measures : measures[m].pc # "fn"

\* C29: a measure / measureSync call made while the label's timer is active
\* has its start rejected (the stored start stays) and still runs perf.end
\* when its fn finishes; the cleanup that finds the timer closes it and
\* records the time since the stored start, a cleanup that finds none returns
\* 0 and records nothing; so the label's count is the number of accepted
\* starts whose timer has been closed, and once every call has finished no
\* timer is active.
C29_OverlappingMeasures ==
  /\ MeasureCall =>
       IF WasActive
       THEN /\ ~measures[pcall.m].started
            /\ activeTimers = ppre.activeTimers
            /\ metricsStore = ppre.metricsStore
       ELSE /\ measures[pcall.m].started
            /\ activeTimers[pcall.label] = pcall.at
  /\ FinishCall =>
       IF WasActive
       THEN /\ pcall.ret = pcall.at - ppre.activeTimers[pcall.label]
            /\ CountOf(pcall.label) =
                 1 + (IF pcall.label \in DOMAIN ppre.metricsStore
                      THEN ppre.metricsStore[pcall.label].count ELSE 0)
            /\ pcall.label \notin DOMAIN activeTimers
       ELSE /\ pcall.ret = 0
            /\ activeTimers = ppre.activeTimers
            /\ metricsStore = ppre.metricsStore
  /\ \A l \in PerfLabels :
       AcceptedStarts(l) = CountOf(l) + (IF l \in DOMAIN activeTimers THEN 1 ELSE 0)
  /\ AllDone => activeTimers = EmptyObject

\* Two overlapping calls on one label, the rejected one finished first and
\* closed the timer: the cleanup of the accepted one found nothing, and the
\* count is one for two calls.
C29_Witness ==
  /\ AllDone
  /\ Len(measures) = 2
  /\ measures[1].label = measures[2].label
  /\ measures[1].started /\ ~measures[2].started
  /\ FinishCall /\ pcall.m = 1 /\ pcall.ret = 0
  /\ CountOf(measures[1].label) = 1
  /\ metricsStore[measures[1].label].totalTime > 0
\* The last call ran the closure of a timer made by time() / timeAsync() on
\* a child.
ChildTimerCall == call.op \in {"end", "finally"} /\ TimerOfCall.via.kind = "kid"
TimingContext(tm, us) ==
  [x \in {"duration", "label"} |-> IF x = "duration" THEN Num(us) ELSE Str(tm.label)]

\* C26: time() / timeAsync() on a child are the parent's: the closure logs
\* on the logger the child forwards to, and the context of the timing entry
\* is {duration, label} over that logger's global context, with nothing of
\* the child's layer.
C26_ChildTimingHasNoChildLayer ==
  ChildTimerCall =>
    LET parent == kids[TimerOfCall.via.id].parent
    IN /\ TimerOfCall.this = CoreHandle(parent)
       /\ \A i \in Cores \ {parent} : written[i] = <<>>
       /\ PassesDebug(parent) => Len(written[parent]) = 1
       /\ \A e \in Entries :
            e.context = Overlay(globalContext[parent], TimingContext(TimerOfCall, Elapsed))

\* The closure of a timer made on a child with the layer {a: ...}: the
\* entry has no key a.
C26_Witness ==
  /\ ChildTimerCall
  /\ "a" \in DOMAIN objs[kids[TimerOfCall.via.id].childContext]
  /\ written[1] # <<>>
  /\ "a" \notin DOMAIN written[1][1].context
  /\ DOMAIN written[1][1].context = {"duration", "label"}
(***************************************************************************)
(* SpecAlias: one logger and first-level children, some of them made from  *)
(* one and the same context object of the caller.                          *)
(***************************************************************************)
InitAlias ==
  /\ Constructed(<<BaseLoggerConfig([level |-> "info"])>>)
  /\ NoRedaction
  /\ NoSanitization
  /\ NoPerf
  /\ NoTracker

NextAlias ==
  /\ ~Observed
  /\ \/ ChildOfObjectStep({"a"}, MaxCalls)
     \/ SetContextStep(Keys, MaxCalls)
     \/ LogStep({"info"}, Messages, OptContextsOf({"a"}))

SpecAlias == InitAlias /\ [][NextAlias]_vars

\* The children made from the caller's object that child j was made from.
Siblings(j) == {k \in Kids : origin[k].obj = origin[j].obj}
ChildSetContextCall == call.op = "setContext" /\ call.h.kind = "kid"

\* C27: a first-level child holds the caller's ctx object itself: a
\* setContext on it writes its keys into that object, so into the layer of
\* every child made from the same object, and leaves the parent's global
\* context as it was; an entry emitted through any of these children is
\* built from the caller's object as it then is.
C27_ChildrenShareCallerObject ==
  /\ ChildSetContextCall =>
       /\ globalContext = pre.globalContext
       /\ objs[origin[call.h.id].obj] =
            Overlay(pre.objs[origin[call.h.id].obj], call.context.ctx)
       /\ \A k \in Siblings(call.h.id) :
            objs[kids[k].childContext] =
              Overlay(pre.objs[kids[k].childContext], call.context.ctx)
  /\ ChildLogCall =>
       \A e \in Entries :
         ShowsMerge(e.context,
                    Overlay(Overlay(globalContext[RootOf(call.h)],
                                    objs[origin[call.h.id].obj]), CallSite),
                    RedactNames(RootOf(call.h)))

\* setContext({a: ...}) through one of two children made from the same
\* object: the other child's layer has the value.
C27_Witness ==
  /\ ChildSetContextCall
  /\ \E k \in Siblings(call.h.id) :
       /\ k # call.h.id
       /\ "a" \in DOMAIN call.context.ctx
       /\ "a" \in DOMAIN objs[kids[k].childContext]
       /\ objs[kids[k].childContext]["a"] = call.context.ctx["a"]
       /\ objs[kids[k].childContext] # pre.objs[kids[k].childContext]
  /\ globalContext[1] = EmptyObject
\* Kid k is a grandchild (or deeper): it was made by child() on a child.
IsGrandchild(k) == origin[k].from.kind = "kid"
LayerOf(k) == objs[kids[k].childContext]

\* C28: child.child(c) makes a logger that forwards to the root logger and
\* holds a new object, the child's layer of that moment overlaid with c; a
\* later setContext on the child (or on any other child) leaves that object
\* as it is, so an entry of the grandchild is built from the root logger's
\* global context as it is at the call -- later setContext calls on the
\* root logger included -- the grandchild's own layer and the call site.
C28_GrandchildCopiesLayer ==
  /\ (call.op = "child" /\ call.h.kind = "kid") =>
       LET k == Len(kids)
       IN /\ kids[k].parent = RootOf(call.h)
          /\ \A j \in Kids \ {k} : kids[j].childContext # kids[k].childContext
          /\ LayerOf(k) = Overlay(pre.objs[kids[call.h.id].childContext], call.context.ctx)
  /\ ChildSetContextCall =>
       \A k \in Kids \ {call.h.id} :
         IsGrandchild(k) => LayerOf(k) = pre.objs[kids[k].childContext]
  /\ (ChildLogCall /\ IsGrandchild(call.h.id)) =>
       \A e \in Entries :
         /\ ShowsMerge(e.context,
                       Overlay(Overlay(OverlayAll(setArgs[RootOf(call.h)]),
                                       LayerOf(call.h.id)), CallSite),
                       RedactNames(RootOf(call.h)))
         /\ \A n \in LaterSets(call.h.id) :
              DOMAIN setArgs[RootOf(call.h)][n] \subseteq DOMAIN e.context

\* An entry of a grandchild after a setContext on the child it was made
\* from: the key that setContext wrote is in the child's layer and not in
\* the entry.
C28_Witness ==
  /\ ChildLogCall
  /\ IsGrandchild(call.h.id)
  /\ Entries # {}
  /\ \E x \in DOMAIN LayerOf(origin[call.h.id].from.id) :
       /\ IsSetValue(LayerOf(origin[call.h.id].from.id)[x])
       /\ x \notin DOMAIN LayerOf(call.h.id)
       /\ \A e \in Entries : x \notin DOMAIN e.context
(***************************************************************************)
(* SpecRace: async operations that share one logger.  Each operation calls *)
(* setContext once with its own requestId and a key of its own, is         *)
(* suspended, and logs after it: the calls of the operations interleave.   *)
(***************************************************************************)
Operations == {"A", "B", "C"}
OwnKey(o) == CASE o = "A" -> "a" [] o = "B" -> "b" [] OTHER -> "c"
OperationContext(o) ==
  [x \in {"requestId", OwnKey(o)} |-> Str(o)]
HasSet(o) == \E n \in DOMAIN setArgs[1] : setArgs[1][n] = OperationContext(o)

InitRace ==
  /\ Constructed(<<BaseLoggerConfig([level |-> "info"])>>)
  /\ NoRedaction
  /\ NoSanitization
  /\ NoPerf
  /\ NoTracker

OperationSetContext(o) ==
  /\ ~HasSet(o)
  /\ SetContext(CoreHandle(1), OperationContext(o))

\* The operation logs after a suspension point, with or without a call-site
\* context.
OperationLog(o) ==
  /\ HasSet(o)
  /\ \E c \in OptContextsOf({"requestId", "step"}) :
       Log(CoreHandle(1), "info", o, c, NoErrorArg)

NextRace ==
  \/ \E o \in Operations : OperationSetContext(o)
  \/ \E o \in Operations : OperationLog(o)

SpecRace == InitRace /\ [][NextRace]_vars

\* The operation whose setContext ran last.
LastSetter == setArgs[1][Len(setArgs[1])]["requestId"].s

\* C25: the setContext calls of operations sharing a logger apply in the
\* order they ran, last write winning per key: an entry an operation emits
\* after its suspension carries, for the colliding key, the value of the
\* operation whose setContext ran last (another operation's, if that one ran
\* in between), and the own key of every operation that has called
\* setContext with that operation's value: no update is lost or applied in
\* part.
C25_SetContextLastWriteWins ==
  LogCall =>
    /\ HasSet(call.message)
    /\ Len(written[1]) = 1
    /\ LET e == written[1][1]
       IN /\ e.hasContext
          /\ "requestId" \in DOMAIN e.context
          /\ "requestId" \notin DOMAIN CallSite => e.context["requestId"] = Str(LastSetter)
          /\ \A o \in Operations :
               IF HasSet(o)
               THEN OwnKey(o) \in DOMAIN e.context /\ e.context[OwnKey(o)] = Str(o)
               ELSE OwnKey(o) \notin DOMAIN e.context
          /\ DOMAIN e.context =
               {"requestId"} \cup {OwnKey(o) : o \in {p \in Operations : HasSet(p)}}
                 \cup DOMAIN CallSite
          /\ \A k \in DOMAIN CallSite : e.context[k] = CallSite[k]

\* A's entry, emitted after B's setContext ran behind A's: it carries B's
\* requestId and the own keys of both.
C25_Witness ==
  /\ LogCall
  /\ call.message = "A"
  /\ ~call.context.has
  /\ setArgs[1] = <<OperationContext("A"), OperationContext("B")>>
  /\ written[1] # <<>>
  /\ written[1][1].context["requestId"] = Str("B")
  /\ written[1][1].context["a"] = Str("A")
  /\ written[1][1].context["b"] = Str("B")
(***************************************************************************)
(* createBrowserLogger: a ConsoleAdapter whose error and warn methods are  *)
(* replaced, on the instance, by wrappers that also call the error         *)
(* tracker, when a tracker is given and the mode is not dev.               *)
(***************************************************************************)
BrowserConfig(isDevMode, prefix) ==
  BaseLoggerConfig([level |-> IF isDevMode THEN "debug" ELSE "warn",
                    format |-> "pretty", timestamps |-> TRUE, prefix |-> prefix,
                    sanitizeErrors |-> ~isDevMode])

\* What a call does, in order: the write of the transport and the calls of
\* the tracker.
Event(kind, error, context, message, suffix, level) ==
  [kind |-> kind, error |-> error, context |-> context, message |-> message,
   suffix |-> suffix, level |-> level]
WriteEvent == Event("write", NoErrorArg, Undefined, "", <<>>, "")
captureException(error, context) ==
  Event("captureException", error, context, "", <<>>, "")
\* captureMessage(`${message}${suffix}`, level)
captureMessage(message, suffix, level) ==
  Event("captureMessage", NoErrorArg, Undefined, message, suffix, level)

\* The tracker branch of the error wrapper raises what String(error) raises
\* in its template literal.
trackErrorThrows(error) == error.t # "Error" /\ Truthy(error) /\ StringThrows(error)

\* A wrapper that hands the tracker the context after field redaction.
trackErrorRedacted(message, error, context) ==
  IF error.t = "Error"
  THEN <<captureException(error,
                          IF context.has
                          THEN Provided(redactSensitiveFields(DefaultConfig, context.ctx))
                          ELSE context)>>
  ELSE IF trackErrorThrows(error) THEN <<>>
  ELSE IF Truthy(error)
  THEN <<captureMessage(message, <<":", " ">> \o StringOf(error), "error")>>
  ELSE <<captureMessage(message, <<>>, "error")>>

\* The tracker calls of the error wrapper: one, or none when String(error)
\* raises.
trackError(message, error, context) ==
  IF error.t = "Error"
  THEN <<captureException(error, context)>>
  ELSE IF trackErrorThrows(error) THEN <<>>
  ELSE IF Truthy(error)
  THEN <<captureMessage(message, <<":", " ">> \o StringOf(error), "error")>>
  ELSE <<captureMessage(message, <<>>, "error")>>

\* The tracker call of the warn wrapper.
trackWarn(message) == captureMessage(message, <<>>, "warning")

\* A wrapper that calls the tracker in place of the original method.
wrapperReplacesOriginal(level) == FALSE

\* The wrappers call originalError / originalWarn first.
wrapperCallsOriginal(level) == TRUE

Wrapped(level) == tracked.wrapped /\ level \in {"error", "warn"}

\* logger.<level>(...) on the browser logger (h a core handle) or on one of
\* its children: a child calls this.parent.<level>, which is the wrapper
\* when there is one, with its merged context.
BrowserLog(h, level, message, context, error) ==
  /\ (level # "error") => (error = NoErrorArg)
  /\ LET i == IF h.kind = "core" THEN h.id ELSE kids[h.id].parent
         ctx == IF h.kind = "core" THEN context
                ELSE DelegatingMergeContext(objs[kids[h.id].childContext], context)
         original == ~Wrapped(level) \/ wrapperCallsOriginal(level)
         originalThrows == original /\ BaseLogThrows(i, level, error)
         trackerThrows == /\ Wrapped(level) /\ level = "error"
                          /\ ~originalThrows /\ trackErrorThrows(error)
     IN /\ IF original THEN BaseLog(i, level, message, ctx, error)
           ELSE written' = [j \in Cores |-> <<>>]
        /\ tracked' =
             [tracked EXCEPT !.events =
                (IF original /\ shouldLog(config[i], level) /\ ~originalThrows
                 THEN <<WriteEvent>> ELSE <<>>)
                  \o (IF ~Wrapped(level) \/ originalThrows THEN <<>>
                      ELSE IF level = "error" THEN trackError(message, error, ctx)
                      ELSE <<trackWarn(message)>>)]
        /\ call' = [NoCall EXCEPT !.op = "log", !.h = h, !.level = level,
                                  !.message = message, !.context = context,
                                  !.error = error,
                                  !.threw = originalThrows \/ trackerThrows]
  /\ pre' = Snapshot
  /\ UNCHANGED <<config, globalContext, objs, callerObjs, kids, timers, setArgs, origin,
                 ncalls>>
  /\ UNCHANGED <<redactVars, sanitizeVars, perfVars>>

BrowserErrors ==
  {NoErrorArg, NullErrorArg, BareObjectErrorArg, StringErrorArg(<<>>),
   StringErrorArg(<<"b", "o", "o", "m">>),
   ErrorObject("TypeError", <<"t", "o", "k", "e", "n", "=", "a", "b", "c">>, NoCode)}

\* createBrowserLogger({isDev, errorTracker?, prefix: 'app'}).
InitBrowser ==
  /\ \E isDevMode \in BOOLEAN, errorTracker \in BOOLEAN :
       /\ Constructed(<<BrowserConfig(isDevMode, "app")>>)
       /\ tracked = [isDevMode |-> isDevMode, errorTracker |-> errorTracker,
                     wrapped |-> errorTracker /\ ~isDevMode, events |-> <<>>]
  /\ NoRedaction
  /\ NoSanitization
  /\ NoPerf

\* As in Spec, a log call is the observation that ends a behaviour.
NextBrowser ==
  /\ ~Observed
  /\ \/ \E h \in Handles, l \in Levels, c \in TokenOrNothing, e \in BrowserErrors :
          BrowserLog(h, l, "x", c, e)
     \/ ChildStep({"a"}, MaxKids)
     \/ SetContextStep({"a"}, MaxKids)

SpecBrowser == InitBrowser /\ [][NextBrowser]_vars
\* The last call was error() or warn(), on a logger made with a tracker in
\* production mode / on a logger made in dev mode.
Production == tracked.errorTracker /\ ~tracked.isDevMode
ErrorOrWarnCall == LogCall /\ call.level \in {"error", "warn"}
TrackerEvents == SelectSeq(tracked.events, LAMBDA ev : ev.kind # "write")

\* C22 as stated: on a browser logger made with an errorTracker in
\* production mode every error() or warn() call writes its entry and then
\* calls the tracker, once:
\* captureException for an Error instance, captureMessage otherwise; on a
\* logger made in dev mode no call reaches the tracker.
C22_TrackerAfterWrite ==
  /\ (ErrorOrWarnCall /\ Production) =>
       /\ Len(written[RootOf(call.h)]) = 1
       /\ Len(tracked.events) = 2
       /\ tracked.events[1].kind = "write"
       /\ tracked.events[2].kind =
            IF call.level = "error" /\ call.error.t = "Error"
            THEN "captureException" ELSE "captureMessage"
  /\ tracked.isDevMode => TrackerEvents = <<>>

ProductionErrorCall == LogCall /\ call.level = "error" /\ Production /\ ~call.threw
TrackerEvent == tracked.events[Len(tracked.events)]
WrittenEntry == written[RootOf(call.h)][1]

\* What the transport gets is sanitized and redacted.
WrittenIsSanitized ==
  /\ Len(written[RootOf(call.h)]) = 1
  /\ WrittenEntry.message = "[app] " \o call.message
  /\ call.error.t = "Error" =>
       WrittenEntry.error.message = sanitizeErrorMessage(call.error.message)
  /\ \A k \in DOMAIN WrittenEntry.context :
       k \in RedactNames(RootOf(call.h)) => WrittenEntry.context[k] = REDACTED

\* C30 as stated: captureException gets the Error object and the call-site
\* context as passed, captureMessage the unprefixed message with String(error)
\* appended for every value given that is not an Error; the entry written is
\* sanitized and redacted.
C30_TrackerGetsRawArguments ==
  ProductionErrorCall =>
    /\ TrackerEvents # <<>>
    /\ IF call.error.t = "Error"
       THEN /\ TrackerEvent.kind = "captureException"
            /\ TrackerEvent.error = call.error
            /\ TrackerEvent.context = call.context
       ELSE /\ TrackerEvent.kind = "captureMessage"
            /\ TrackerEvent.message = call.message
            /\ TrackerEvent.level = "error"
            /\ TrackerEvent.suffix =
                 IF call.error = NoErrorArg THEN <<>>
                 ELSE <<":", " ">> \o TextOf(call.error)
    /\ WrittenIsSanitized

\* C30: on the browser logger itself captureException gets the Error object
\* and the call-site context as passed; through a child it gets the child's
\* layer overlaid with the call-site context; captureMessage gets the
\* unprefixed message, with ": " and String(error) appended when the value
\* given is truthy and alone when it is null, '' or absent.  Nothing of the
\* global context, no redaction and no sanitization is applied to these,
\* while the entry written is sanitized and redacted.
C30_TrackerGetsUnredactedArguments ==
  ProductionErrorCall =>
    /\ TrackerEvents # <<>>
    /\ IF call.error.t = "Error"
       THEN /\ TrackerEvent.kind = "captureException"
            /\ TrackerEvent.error = call.error
            /\ TrackerEvent.context =
                 IF call.h.kind = "core" THEN call.context
                 ELSE Provided(Overlay(ChildLayer, CallSite))
       ELSE /\ TrackerEvent.kind = "captureMessage"
            /\ TrackerEvent.message = call.message
            /\ TrackerEvent.level = "error"
            /\ TrackerEvent.suffix =
                 IF call.error \in {NoErrorArg, NullErrorArg, StringErrorArg(<<>>)}
                 THEN <<>>
                 ELSE <<":", " ">> \o TextOf(call.error)
    /\ WrittenIsSanitized

\* error('x', new TypeError('token=abc'), {token: ...}) in production, the
\* global context holding a key: the tracker has the message and the token
\* as given and no global key, the entry has both redacted.
C30_Witness ==
  /\ ProductionErrorCall
  /\ call.h.kind = "core"
  /\ call.error.t = "Error"
  /\ call.context.has
  /\ globalContext[1] # EmptyObject
  /\ TrackerEvent.error.message = <<"t", "o", "k", "e", "n", "=", "a", "b", "c">>
  /\ TrackerEvent.context.ctx["token"] = CallSiteValue
  /\ DOMAIN TrackerEvent.context.ctx = {"token"}
  /\ WrittenEntry.error.message # TrackerEvent.error.message
  /\ WrittenEntry.context["token"] = REDACTED
(***************************************************************************)
(* Exceptions raised to the caller of a logging call (SpecError).          *)
(***************************************************************************)
\* C24 as stated, for the logging calls: no debug, info, warn or error call
\* raises an exception to its caller, whatever the error value is (the
\* transport's write never throws in this model).
C24_NoLoggingCallRaises == (call.op = "log") => ~call.threw

====
